---- MODULE Spec2Model ----
(***************************************************************************)
(* A model of the test-generation scripts of this repository:              *)
(*   - the multi-language pipeline (pipeline.py) with its language         *)
(*     detector, rule-based scenario generator and test-code generator;    *)
(*   - the VS Code variant's function extractor and LLM factory.           *)
(* Python strings are TLA+ strings; Python's None is the value None.       *)
(***************************************************************************)
EXTENDS Integers, Sequences, FiniteSets, TLC

VARIABLES
    source_file,        \* pipeline.source_file: the path given to the pipeline
    file_exists,        \* os.path.exists(source_file)
    content,            \* what is in the file (in SpecExtractScript: in each file, by path)
    generate_coverage,  \* pipeline.generate_coverage
    custom_values,      \* pipeline.custom_values
    language,           \* pipeline.language
    functions,          \* pipeline.functions
    scenarios,          \* pipeline.scenarios
    test_files,         \* pipeline.test_files
    coverage_report,    \* pipeline.coverage_report
    disk,               \* the output directory: what makedirs and open will do, what was written
    env,                \* the process environment of the LLM scripts
    pc,                 \* position of the running call
    trace,              \* the calls made so far by the running call, with what each returned
    ret,                \* the finished call and the value it returned
    stdin,              \* what a script of ai-unit-test-generator reads from sys.stdin
    stdout,             \* what the script has printed to sys.stdout
    stderr,             \* what the script has printed to sys.stderr
    exit_status,        \* the status the script has exited with
    node_attempts,      \* the running graph: per node, what each attempt made so far did
    class_stack,        \* FunctionExtractor.class_stack
    visiting            \* the nodes whose visit_* call is running, outermost first

vars == <<source_file, file_exists, content, generate_coverage, custom_values, language,
          functions, scenarios, test_files, coverage_report, disk, env, pc, trace, ret,
          stdin, stdout, stderr, exit_status, node_attempts, class_stack, visiting>>

script_vars == <<stdin, stdout, stderr, exit_status, node_attempts, class_stack, visiting>>

pipeline_vars == <<generate_coverage, custom_values, language, functions, scenarios,
                   test_files, coverage_report, disk>>

None == "<None>"
Range(s) == {s[i] : i \in 1..Len(s)}

----------------------------------------------------------------------------
(* Python str operations *)

LowerChar(c) ==
    CASE c = "A" -> "a" [] c = "B" -> "b" [] c = "C" -> "c" [] c = "D" -> "d"
      [] c = "E" -> "e" [] c = "F" -> "f" [] c = "G" -> "g" [] c = "H" -> "h"
      [] c = "I" -> "i" [] c = "J" -> "j" [] c = "K" -> "k" [] c = "L" -> "l"
      [] c = "M" -> "m" [] c = "N" -> "n" [] c = "O" -> "o" [] c = "P" -> "p"
      [] c = "Q" -> "q" [] c = "R" -> "r" [] c = "S" -> "s" [] c = "T" -> "t"
      [] c = "U" -> "u" [] c = "V" -> "v" [] c = "W" -> "w" [] c = "X" -> "x"
      [] c = "Y" -> "y" [] c = "Z" -> "z" [] OTHER -> c

RECURSIVE Lower(_)
\* str.lower()
Lower(s) ==
    IF s = "" THEN "" ELSE LowerChar(SubSeq(s, 1, 1)) \o Lower(SubSeq(s, 2, Len(s)))

\* whether the text s begins with prefix
StartsWith(s, prefix) ==
    Len(prefix) <= Len(s) /\ SubSeq(s, 1, Len(prefix)) = prefix

\* the Python expression `sub in s`
Contains(s, sub) ==
    \E i \in 1..(Len(s) - Len(sub) + 1) : SubSeq(s, i, i + Len(sub) - 1) = sub

\* str.rfind(c) for a one-character c, 1-based; 0 when c does not occur
RFind(s, c) ==
    LET hits == {i \in 1..Len(s) : SubSeq(s, i, i) = c}
    IN  IF hits = {} THEN 0 ELSE CHOOSE i \in hits : \A j \in hits : j <= i

RECURSIVE Replace(_, _, _)
\* str.replace(old, new), old not empty
Replace(s, old, new) ==
    IF Len(s) < Len(old) THEN s
    ELSE IF SubSeq(s, 1, Len(old)) = old
         THEN new \o Replace(SubSeq(s, Len(old) + 1, Len(s)), old, new)
         ELSE SubSeq(s, 1, 1) \o Replace(SubSeq(s, 2, Len(s)), old, new)

----------------------------------------------------------------------------
(* language_detector.py *)

\* the keys of LANGUAGE_CONFIGS in dict order
LanguageKeys ==
    <<"python", "javascript", "typescript", "java", "csharp",
      "go", "ruby", "php", "rust", "cpp">>

LanguageConfig(name, extensions, test_framework, test_file_prefix, comment_style) ==
    [name |-> name, extensions |-> extensions, test_framework |-> test_framework,
     test_file_prefix |-> test_file_prefix, comment_style |-> comment_style]

LANGUAGE_CONFIGS ==
    [python     |-> LanguageConfig("Python", <<".py">>, "pytest", "test_", "\"\"\""),
     javascript |-> LanguageConfig("JavaScript", <<".js", ".jsx">>, "jest", "", "//"),
     typescript |-> LanguageConfig("TypeScript", <<".ts", ".tsx">>, "jest", "", "//"),
     java       |-> LanguageConfig("Java", <<".java">>, "junit", "", "//"),
     csharp     |-> LanguageConfig("C#", <<".cs">>, "nunit", "", "//"),
     go         |-> LanguageConfig("Go", <<".go">>, "testing", "", "//"),
     ruby       |-> LanguageConfig("Ruby", <<".rb">>, "rspec", "", "#"),
     php        |-> LanguageConfig("PHP", <<".php">>, "phpunit", "", "//"),
     rust       |-> LanguageConfig("Rust", <<".rs">>, "cargo test", "", "//"),
     cpp        |-> LanguageConfig("C++", <<".cpp", ".cc", ".cxx", ".hpp", ".h">>,
                                   "googletest", "", "//")]

RECURSIVE StripTail(_)
\* pathlib drops trailing separators and "." components
StripTail(p) ==
    IF p = "." THEN ""
    ELSE IF Len(p) > 1 /\ SubSeq(p, Len(p), Len(p)) = "/"
    THEN StripTail(SubSeq(p, 1, Len(p) - 1))
    ELSE IF Len(p) > 1 /\ SubSeq(p, Len(p) - 1, Len(p)) = "/."
    THEN StripTail(SubSeq(p, 1, Len(p) - 1))
    ELSE p

\* Path(p).name: the final component of the path
PathName(p) ==
    LET q == StripTail(p)
    IN  SubSeq(q, RFind(q, "/") + 1, Len(q))

\* Path(p).suffix: the final extension of the final component, "" when it has none
PathSuffix(p) ==
    LET name == PathName(p)
        i    == RFind(name, ".")
    IN  IF 1 < i /\ i < Len(name) THEN SubSeq(name, i, Len(name)) ELSE ""

\* Path(p).stem
PathStem(p) ==
    LET name == PathName(p)
        i    == RFind(name, ".")
    IN  IF 1 < i /\ i < Len(name) THEN SubSeq(name, 1, i - 1) ELSE name

\* detect_language without the .lower() on the suffix
detect_language_case_sensitive(file_path) ==
    LET ext == PathSuffix(file_path)
        hits == {i \in 1..Len(LanguageKeys) :
                    ext \in Range(LANGUAGE_CONFIGS[LanguageKeys[i]].extensions)}
    IN  IF hits = {} THEN None
        ELSE LanguageKeys[CHOOSE i \in hits : \A j \in hits : i <= j]

\* detect_language: the key of the first config (in dict order) that lists the
\* lower-cased suffix, None when there is none; the config returned with it
\* is LANGUAGE_CONFIGS[key]
detect_language(file_path) ==
    LET ext == Lower(PathSuffix(file_path))
        hits == {i \in 1..Len(LanguageKeys) :
                    ext \in Range(LANGUAGE_CONFIGS[LanguageKeys[i]].extensions)}
    IN  IF hits = {} THEN None
        ELSE LanguageKeys[CHOOSE i \in hits : \A j \in hits : i <= j]

is_supported_language(file_path) == detect_language(file_path) # None

----------------------------------------------------------------------------
(* Function infos and the sources they carry.

   A func_source is one of
     kind "none"  : the value None (no source segment could be taken)
     kind "empty" : the empty string (also the default for a missing key)
     kind "text"  : text that ast.parse rejects (any non-Python function)
     kind "def"   : the source of one Python function definition, given by
                    what the ast of it holds: its positional parameters with
                    their annotations, its return annotation, the type of the
                    first return statement that returns a literal, whether an
                    If / a For or While node occurs, and the names of the
                    exceptions of its raise statements in ast.walk order.  *)

Source(kind, params, returns, return_value, has_if, has_loop, raises) ==
    [kind |-> kind, params |-> params, returns |-> returns,
     return_value |-> return_value, has_if |-> has_if, has_loop |-> has_loop,
     raises |-> raises]

NoSource(kind) == Source(kind, <<>>, None, None, FALSE, FALSE, <<>>)

FunctionInfo(func_name, class_name, is_async, func_source) ==
    [func_name |-> func_name,
     qualified_name |-> IF class_name = None THEN func_name
                        ELSE class_name \o "." \o func_name,
     class_name |-> class_name, is_async |-> is_async, func_source |-> func_source]

\* the result of a call: a returned value or a raised exception
Ok(v) == [raised |-> FALSE, value |-> v]
Raise(e) == [raised |-> TRUE, value |-> e]

\* ast.parse(func_source) succeeds
Parses(src) == src.kind \in {"empty", "def"}

\* ast.parse(func_source).body[0] is a function definition
HasFuncNode(src) == src.kind = "def"

RECURSIVE DropSelfCls(_)
DropSelfCls(params) ==
    IF params = <<>> THEN <<>>
    ELSE IF Head(params).name \in {"self", "cls"} THEN DropSelfCls(Tail(params))
         ELSE <<Head(params)>> \o DropSelfCls(Tail(params))

----------------------------------------------------------------------------
(* generate_scenarios.py *)

\* ScenarioGenerator._extract_parameters
_extract_parameters(src) ==
    IF HasFuncNode(src) THEN DropSelfCls(src.params) ELSE <<>>

\* ScenarioGenerator._infer_return_type
_infer_return_type(src) ==
    IF ~HasFuncNode(src) THEN None
    ELSE IF src.returns # None THEN src.returns
         ELSE src.return_value

\* ScenarioGenerator._has_conditionals
_has_conditionals(src) == Parses(src) /\ src.has_if

\* ScenarioGenerator._has_loops
_has_loops(src) == Parses(src) /\ src.has_loop

\* ScenarioGenerator._check_exceptions
_check_exceptions(src) == IF Parses(src) THEN src.raises ELSE <<>>

\* ScenarioGenerator.__init__
ScenarioGenerator(function_info) ==
    [func_name |-> function_info.func_name,
     qualified_name |-> function_info.qualified_name,
     class_name |-> function_info.class_name,
     is_async |-> function_info.is_async,
     params |-> _extract_parameters(function_info.func_source),
     return_type |-> _infer_return_type(function_info.func_source),
     has_conditionals |-> _has_conditionals(function_info.func_source),
     has_loops |-> _has_loops(function_info.func_source),
     raises_exceptions |-> _check_exceptions(function_info.func_source)]

Scenario(scenario_name, description, category, test_type) ==
    [scenario_name |-> scenario_name, description |-> description,
     category |-> category, test_type |-> test_type]

\* the scenarios of one parameter (generate, the body of the loop over params);
\* the annotation is a string here
ParamScenarios(func_name, param) ==
    LET param_type == Lower(param.annotation)
        name == param.name
        edge ==
            IF Contains(param_type, "int") \/ Contains(param_type, "float")
            THEN <<Scenario("test_" \o name \o "_zero",
                            "Test " \o func_name \o " with " \o name \o " = 0",
                            "edge_case", "boundary"),
                   Scenario("test_" \o name \o "_negative",
                            "Test " \o func_name \o " with negative " \o name,
                            "edge_case", "boundary")>>
            ELSE IF Contains(param_type, "str")
            THEN <<Scenario("test_" \o name \o "_empty_string",
                            "Test " \o func_name \o " with empty " \o name,
                            "edge_case", "boundary")>>
            ELSE IF Contains(param_type, "list") \/ Contains(param_type, "tuple")
            THEN <<Scenario("test_" \o name \o "_empty",
                            "Test " \o func_name \o " with empty " \o name,
                            "edge_case", "boundary")>>
            ELSE <<>>
    IN  edge \o <<Scenario("test_" \o name \o "_none",
                           "Test " \o func_name \o " with None " \o name,
                           "edge_case", "null_check")>>

RECURSIVE AllParamScenarios(_, _)
AllParamScenarios(func_name, params) ==
    IF params = <<>> THEN <<>>
    ELSE ParamScenarios(func_name, Head(params))
         \o AllParamScenarios(func_name, Tail(params))

RECURSIVE RaiseScenariosOncePerType(_, _)
\* a variant that makes one scenario per exception type, not per raise
RaiseScenariosOncePerType(func_name, excs) ==
    IF excs = <<>> THEN <<>>
    ELSE LET rest == SelectSeq(Tail(excs), LAMBDA e : e # Head(excs))
         IN  <<Scenario("test_raises_" \o Replace(Lower(Head(excs)), "error", ""),
                        "Test " \o func_name \o " raises " \o Head(excs),
                        "exception", "error_handling")>>
             \o RaiseScenariosOncePerType(func_name, rest)

RECURSIVE RaiseScenarios(_, _)
RaiseScenarios(func_name, excs) ==
    IF excs = <<>> THEN <<>>
    ELSE <<Scenario("test_raises_" \o Replace(Lower(Head(excs)), "error", ""),
                    "Test " \o func_name \o " raises " \o Head(excs),
                    "exception", "error_handling")>>
         \o RaiseScenarios(func_name, Tail(excs))

\* the list generate() builds when every parameter has an annotation string
ScenarioList(g) ==
        (<<Scenario("test_normal_execution",
                      "Test " \o g.func_name \o " with valid inputs",
                      "happy_path", "functional")>>
           \o AllParamScenarios(g.func_name, g.params)
           \o (IF g.raises_exceptions # <<>>
               THEN RaiseScenarios(g.func_name, g.raises_exceptions)
               ELSE <<Scenario("test_invalid_input",
                               "Test " \o g.func_name \o " with invalid input types",
                               "exception", "error_handling")>>)
           \o (IF g.return_type # None
               THEN <<Scenario("test_return_type",
                               "Test " \o g.func_name \o " returns correct type ("
                                   \o g.return_type \o ")",
                               "validation", "return_type")>>
               ELSE <<>>)
           \o (IF g.has_conditionals
               THEN <<Scenario("test_conditional_branches",
                               "Test " \o g.func_name \o " conditional logic paths",
                               "logic", "branch_coverage")>>
               ELSE <<>>)
           \o (IF g.has_loops
               THEN <<Scenario("test_loop_behavior",
                               "Test " \o g.func_name \o " loop execution",
                               "logic", "iteration")>>
               ELSE <<>>))

\* a variant of generate that makes no test_invalid_input scenario for a
\* function in which no raise was found
generate_without_invalid_input(g) ==
    IF \E i \in 1..Len(g.params) : g.params[i].annotation = None
    THEN Raise("AttributeError")
    ELSE Ok(SelectSeq(ScenarioList(g),
                      LAMBDA sc : sc.scenario_name # "test_invalid_input"))

\* ScenarioGenerator.generate, for the generator g built by __init__.
\* param.get("annotation", "") is None for a parameter without annotation (the
\* key is always there), and None.lower() raises AttributeError.
generate(g) ==
    IF \E i \in 1..Len(g.params) : g.params[i].annotation = None
    THEN Raise("AttributeError")
    ELSE Ok(ScenarioList(g))

----------------------------------------------------------------------------
(* Python dicts keep insertion order: a dict is a sequence of entries with
   distinct keys; assigning to a key that is there keeps its place.         *)

DictKeys(d) == {d[i].key : i \in 1..Len(d)}

DictGet(d, k, default) ==
    IF k \in DictKeys(d)
    THEN d[CHOOSE i \in 1..Len(d) : d[i].key = k].value
    ELSE default

DictSet(d, k, v) ==
    IF k \in DictKeys(d)
    THEN [i \in 1..Len(d) |-> IF d[i].key = k THEN [key |-> k, value |-> v] ELSE d[i]]
    ELSE Append(d, [key |-> k, value |-> v])

RECURSIVE ScenariosLoop(_, _)
\* the loop of generate_scenarios_for_functions over the functions left,
\* all_scenarios being the dict so far
ScenariosLoop(funcs, all_scenarios) ==
    IF funcs = <<>> THEN Ok(all_scenarios)
    ELSE LET r == generate(ScenarioGenerator(Head(funcs)))
         IN  IF r.raised THEN r
             ELSE ScenariosLoop(Tail(funcs),
                                DictSet(all_scenarios, Head(funcs).qualified_name, r.value))

\* generate_scenarios_for_functions
generate_scenarios_for_functions(funcs) == ScenariosLoop(funcs, <<>>)

----------------------------------------------------------------------------
(* more str operations, used by the language test generators *)

UpperChar(c) ==
    CASE c = "a" -> "A" [] c = "b" -> "B" [] c = "c" -> "C" [] c = "d" -> "D"
      [] c = "e" -> "E" [] c = "f" -> "F" [] c = "g" -> "G" [] c = "h" -> "H"
      [] c = "i" -> "I" [] c = "j" -> "J" [] c = "k" -> "K" [] c = "l" -> "L"
      [] c = "m" -> "M" [] c = "n" -> "N" [] c = "o" -> "O" [] c = "p" -> "P"
      [] c = "q" -> "Q" [] c = "r" -> "R" [] c = "s" -> "S" [] c = "t" -> "T"
      [] c = "u" -> "U" [] c = "v" -> "V" [] c = "w" -> "W" [] c = "x" -> "X"
      [] c = "y" -> "Y" [] c = "z" -> "Z" [] OTHER -> c

IsCased(c) == UpperChar(c) # c \/ LowerChar(c) # c

RECURSIVE CapitalizeWords(_, _, _)
\* "".join(word.capitalize() for word in s.split(sep)): at_start says the next
\* character begins a word
CapitalizeWords(s, sep, at_start) ==
    IF s = "" THEN ""
    ELSE LET c == SubSeq(s, 1, 1)
             rest == SubSeq(s, 2, Len(s))
         IN  IF c = sep THEN CapitalizeWords(rest, sep, TRUE)
             ELSE (IF at_start THEN UpperChar(c) ELSE LowerChar(c))
                  \o CapitalizeWords(rest, sep, FALSE)

RECURSIVE Title(_, _)
\* str.title(): a cased character is upper case after an uncased one and lower
\* case after a cased one
Title(s, prev_cased) ==
    IF s = "" THEN ""
    ELSE LET c == SubSeq(s, 1, 1)
         IN  (IF prev_cased THEN LowerChar(c) ELSE UpperChar(c))
             \o Title(SubSeq(s, 2, Len(s)), IsCased(c))

RECURSIVE Join(_, _)
\* sep.join(parts)
Join(parts, sep) ==
    IF parts = <<>> THEN ""
    ELSE IF Len(parts) = 1 THEN parts[1]
         ELSE parts[1] \o sep \o Join(Tail(parts), sep)

\* custom values come from JSON: [t |-> "int" | "str" | "bool" | "none", v |-> ...]
IntValue(n) == [t |-> "int", v |-> ToString(n)]
StrValue(x) == [t |-> "str", v |-> x]
BoolValue(b) == [t |-> "bool", v |-> IF b THEN "True" ELSE "False"]

\* isinstance(value, str)
IsStr(value) == value.t = "str"

\* str(value)
PyStr(value) == value.v

----------------------------------------------------------------------------
(* language_test_generators.py: every generate_test_function returns one
   string; it is given here as the list of its lines.                       *)

\* PythonTestGenerator.generate_test_function
PythonTestGenerator_test(func_name, scenario, test_args, is_exception) ==
    <<"def " \o scenario.scenario_name \o "():",
      "    \"\"\"",
      "    " \o scenario.description,
      "    \"\"\"">>
    \o (IF is_exception
        THEN <<"    with pytest.raises(ValueError):",
               "        " \o func_name \o "(" \o Join(test_args, ", ") \o ")">>
        ELSE <<"    result = " \o func_name \o "(" \o Join(test_args, ", ") \o ")",
               "    assert result is not None">>)

\* JavaScriptTestGenerator.generate_test_function and
\* TypeScriptTestGenerator.generate_test_function (the same text)
JestTestGenerator_test(func_name, scenario, test_args, is_exception) ==
    IF is_exception
    THEN <<"  it('" \o scenario.description \o "', () => {",
           "    expect(() => {",
           "      " \o func_name \o "(" \o Join(test_args, ", ") \o ");",
           "    }).toThrow();",
           "  });">>
    ELSE <<"  it('" \o scenario.description \o "', () => {",
           "    const result = " \o func_name \o "(" \o Join(test_args, ", ") \o ");",
           "    expect(result).toBeDefined();",
           "  });">>

\* CppTestGenerator.generate_test_function
CppTestGenerator_test(func_name, scenario, test_args, is_exception) ==
    LET test_class == CapitalizeWords(scenario.scenario_name, "_", TRUE)
    IN  IF is_exception
        THEN <<"TEST(" \o func_name \o "Test, " \o test_class \o ") {",
               "  // " \o scenario.description,
               "  EXPECT_THROW({",
               "    " \o func_name \o "(" \o Join(test_args, ", ") \o ");",
               "  }, std::exception);",
               "}">>
        ELSE <<"TEST(" \o func_name \o "Test, " \o test_class \o ") {",
               "  // " \o scenario.description,
               "  auto result = " \o func_name \o "(" \o Join(test_args, ", ") \o ");",
               "  EXPECT_TRUE(result != 0 || result == 0); // Basic check",
               "}">>

\* JavaTestGenerator.generate_test_function
JavaTestGenerator_test(func_name, scenario, test_args, is_exception) ==
    LET titled == Replace(Title(Replace(scenario.scenario_name, "_", " "), FALSE), " ", "")
        test_method == LowerChar(SubSeq(titled, 1, 1)) \o SubSeq(titled, 2, Len(titled))
    IN  IF is_exception
        THEN <<"  @Test",
               "  public void " \o test_method \o "() {",
               "    // " \o scenario.description,
               "    assertThrows(Exception.class, () -> {",
               "      " \o func_name \o "(" \o Join(test_args, ", ") \o ");",
               "    });",
               "  }">>
        ELSE <<"  @Test",
               "  public void " \o test_method \o "() {",
               "    // " \o scenario.description,
               "    var result = " \o func_name \o "(" \o Join(test_args, ", ") \o ");",
               "    assertNotNull(result);",
               "  }">>

\* GoTestGenerator.generate_test_function
GoTestGenerator_test(func_name, scenario, test_args, is_exception) ==
    <<"func Test" \o CapitalizeWords(scenario.scenario_name, "_", TRUE) \o "(t *testing.T) {",
      "  // " \o scenario.description,
      "  result := " \o func_name \o "(" \o Join(test_args, ", ") \o ")",
      "  if result == nil {",
      "    t.Error(\"Expected non-nil result\")",
      "  }",
      "}">>

\* <generator>.generate_test_function, by the class of the generator
generate_test_function(generator, func_name, scenario, test_args, is_exception) ==
    CASE generator = "PythonTestGenerator" ->
            PythonTestGenerator_test(func_name, scenario, test_args, is_exception)
      [] generator \in {"JavaScriptTestGenerator", "TypeScriptTestGenerator"} ->
            JestTestGenerator_test(func_name, scenario, test_args, is_exception)
      [] generator = "CppTestGenerator" ->
            CppTestGenerator_test(func_name, scenario, test_args, is_exception)
      [] generator = "JavaTestGenerator" ->
            JavaTestGenerator_test(func_name, scenario, test_args, is_exception)
      [] generator = "GoTestGenerator" ->
            GoTestGenerator_test(func_name, scenario, test_args, is_exception)

\* <generator>.generate_file_header, by the class of the generator
generate_file_header(generator, func_name, module_name) ==
    CASE generator = "PythonTestGenerator" ->
            <<"import pytest", "", "from " \o module_name \o " import " \o func_name>>
      [] generator = "JavaScriptTestGenerator" ->
            <<"const { " \o func_name \o " } = require('./" \o module_name \o "');", "",
              "describe('" \o func_name \o "', () => {">>
      [] generator = "TypeScriptTestGenerator" ->
            <<"import { " \o func_name \o " } from './" \o module_name \o "';", "",
              "describe('" \o func_name \o "', () => {">>
      [] generator = "CppTestGenerator" ->
            <<"#include <gtest/gtest.h>", "#include \"" \o module_name \o ".h\"", "">>
      [] generator = "JavaTestGenerator" ->
            <<"import org.junit.jupiter.api.Test;",
              "import static org.junit.jupiter.api.Assertions.*;", "",
              "public class "
                  \o UpperChar(SubSeq(func_name, 1, 1))
                  \o Lower(SubSeq(func_name, 2, Len(func_name))) \o "Test {", "">>
      [] generator = "GoTestGenerator" ->
            <<"package " \o module_name, "", "import \"testing\"", "">>

\* the test framework a generator class writes for (its docstring and header)
GeneratorFramework(generator) ==
    CASE generator = "PythonTestGenerator" -> "pytest"
      [] generator = "JavaScriptTestGenerator" -> "jest"
      [] generator = "TypeScriptTestGenerator" -> "jest"
      [] generator = "CppTestGenerator" -> "googletest"
      [] generator = "JavaTestGenerator" -> "junit"
      [] generator = "GoTestGenerator" -> "testing"

\* the `generators` dict of get_test_generator
generators ==
    [python |-> "PythonTestGenerator", javascript |-> "JavaScriptTestGenerator",
     typescript |-> "TypeScriptTestGenerator", cpp |-> "CppTestGenerator",
     java |-> "JavaTestGenerator", go |-> "GoTestGenerator"]

\* get_test_generator: generators.get(language, PythonTestGenerator())
get_test_generator(lang) ==
    IF lang \in DOMAIN generators THEN generators[lang] ELSE "PythonTestGenerator"

----------------------------------------------------------------------------
(* generate_unit_tests.py *)

\* language_test_generators.py is in the same directory, so the import succeeds
HAS_LANGUAGE_GENERATORS == TRUE

\* datetime.now().strftime(...): the time the file is generated at
Now == "2025-01-01 00:00:00"

\* TestCodeGenerator._infer_return_type
TestCodeGenerator_infer_return_type(src) ==
    IF HasFuncNode(src) THEN src.returns ELSE None

\* TestCodeGenerator.__init__
TestCodeGenerator(function_info, func_scenarios, source_file_path, func_custom_values, lang) ==
    [func_name |-> function_info.func_name,
     qualified_name |-> function_info.qualified_name,
     class_name |-> function_info.class_name,
     is_async |-> function_info.is_async,
     scenarios |-> func_scenarios,
     source_file_path |-> source_file_path,
     custom_values |-> func_custom_values,
     language |-> IF lang = None THEN "python" ELSE lang,
     params |-> _extract_parameters(function_info.func_source),
     return_type |-> TestCodeGenerator_infer_return_type(function_info.func_source)]

\* the part of _generate_test_data after the custom-value check
ScenarioTestData(param_type, scenario_name) ==
    LET scenario_lower == Lower(scenario_name)
    IN  IF Contains(scenario_lower, "zero") THEN "0"
        ELSE IF Contains(scenario_lower, "negative") THEN "-1"
        ELSE IF Contains(scenario_lower, "empty_string") \/ Contains(scenario_lower, "empty")
             THEN (IF param_type # None /\ Contains(Lower(param_type), "str")
                   THEN "\"\"" ELSE "[]")
        ELSE IF Contains(scenario_lower, "none") THEN "None"
        ELSE IF param_type = None THEN "None"
        ELSE LET param_type_lower == Lower(param_type)
             IN  IF Contains(param_type_lower, "int") THEN "42"
                 ELSE IF Contains(param_type_lower, "float") THEN "3.14"
                 ELSE IF Contains(param_type_lower, "str") THEN "\"test_string\""
                 ELSE IF Contains(param_type_lower, "bool") THEN "True"
                 ELSE IF Contains(param_type_lower, "list") THEN "[1, 2, 3]"
                 ELSE IF Contains(param_type_lower, "dict") THEN "{\"key\": \"value\"}"
                 ELSE IF Contains(param_type_lower, "tuple") THEN "(1, 2, 3)"
                 ELSE "None"

\* _generate_test_data with the custom value looked up last, after the
\* scenario-name edge values
_generate_test_data_custom_last(custom, param_name, param_type, scenario_name) ==
    LET scenario_lower == Lower(scenario_name)
        edge == \E w \in {"zero", "negative", "empty", "none"} : Contains(scenario_lower, w)
    IN  IF ~edge /\ param_name \in DictKeys(custom)
        THEN LET value == DictGet(custom, param_name, None)
             IN  IF IsStr(value) THEN "\"" \o value.v \o "\"" ELSE PyStr(value)
        ELSE ScenarioTestData(param_type, scenario_name)

\* TestCodeGenerator._generate_test_data
_generate_test_data(custom, param_name, param_type, scenario_name) ==
    IF param_name \in DictKeys(custom)
    THEN LET value == DictGet(custom, param_name, None)
         IN  IF IsStr(value) THEN "\"" \o value.v \o "\"" ELSE PyStr(value)
    ELSE ScenarioTestData(param_type, scenario_name)

\* TestCodeGenerator._generate_assertion
_generate_assertion(tcg, scenario) ==
    LET test_type == scenario.test_type
        scenario_name == scenario.scenario_name
    IN  IF "expected_result" \in DictKeys(tcg.custom_values)
        THEN LET expected == DictGet(tcg.custom_values, "expected_result", None)
             IN  IF IsStr(expected) THEN "assert result == \"" \o expected.v \o "\""
                 ELSE "assert result == " \o PyStr(expected)
        ELSE IF test_type = "exception" \/ Contains(scenario.category, "exception")
        THEN "pytest.raises("
             \o (IF Contains(scenario_name, "type") THEN "TypeError"
                 ELSE IF Contains(scenario_name, "value") THEN "ValueError"
                 ELSE IF Contains(scenario_name, "zero")
                         /\ Contains(Lower(scenario_name), "division")
                      THEN "ZeroDivisionError"
                 ELSE "ValueError")
             \o ")"
        ELSE IF test_type = "return_type"
        THEN LET type_map == <<"int", "float", "str", "bool", "list", "dict", "tuple">>
                 hits == IF tcg.return_type = None THEN {}
                         ELSE {i \in 1..Len(type_map) :
                                  Contains(Lower(tcg.return_type), type_map[i])}
             IN  IF hits = {} THEN "assert result is not None"
                 ELSE "assert isinstance(result, "
                      \o type_map[CHOOSE i \in hits : \A j \in hits : i <= j] \o ")"
        ELSE IF Contains(scenario_name, "none") THEN "assert result is None"
        ELSE IF Contains(scenario_name, "empty")
        THEN "assert result == [] or result == '' or result == {}"
        ELSE "assert result is not None"

\* the test_args list of _generate_test_function
TestArgs(tcg, scenario) ==
    [i \in 1..Len(tcg.params) |->
        _generate_test_data(tcg.custom_values, tcg.params[i].name,
                            tcg.params[i].annotation, scenario.scenario_name)]

\* TestCodeGenerator._generate_test_function, as the list of its lines
_generate_test_function(tcg, scenario) ==
    LET test_args == TestArgs(tcg, scenario)
        is_exception == scenario.test_type = "exception"
                        \/ Contains(scenario.category, "exception")
        args_str == Join(test_args, ", ")
        await == IF tcg.is_async THEN "await " ELSE ""
        call == IF tcg.class_name # None
                THEN "obj." \o tcg.func_name \o "(" \o args_str \o ")"
                ELSE tcg.func_name \o "(" \o args_str \o ")"
    IN  IF HAS_LANGUAGE_GENERATORS /\ tcg.language # "python"
        THEN generate_test_function(get_test_generator(tcg.language), tcg.func_name,
                                    scenario, test_args, is_exception)
        ELSE <<(IF tcg.is_async THEN "async " ELSE "")
                   \o "def " \o scenario.scenario_name \o "():",
               "    \"\"\"",
               "    " \o scenario.description,
               "    \"\"\"">>
             \o (IF is_exception
                 THEN <<"    with " \o _generate_assertion(tcg, scenario) \o ":">>
                      \o (IF tcg.class_name # None
                          THEN <<"        obj = " \o tcg.class_name \o "()">> ELSE <<>>)
                      \o <<"        " \o await \o call>>
                 ELSE (IF tcg.class_name # None
                       THEN <<"    obj = " \o tcg.class_name \o "()">> ELSE <<>>)
                      \o <<"    result = " \o await \o call,
                           "    " \o _generate_assertion(tcg, scenario)>>)

\* language_detector.get_module_name
get_module_name(file_path) == PathStem(file_path)

\* language_detector.generate_import_statement for language "python"
generate_import_statement(module_name, function_name, class_name) ==
    IF class_name # None THEN "from " \o module_name \o " import " \o class_name
    ELSE "from " \o module_name \o " import " \o function_name

\* TestCodeGenerator._generate_import_statement (on the Python path)
_generate_import_statement(tcg) ==
    IF tcg.source_file_path = None
    THEN (IF tcg.class_name # None THEN "# TODO: Import " \o tcg.class_name
          ELSE "# TODO: Import " \o tcg.func_name)
    ELSE generate_import_statement(get_module_name(tcg.source_file_path),
                                   tcg.func_name, tcg.class_name)

RECURSIVE TestFunctions(_, _, _)
\* the loop over self.scenarios in generate_test_file: each test function
\* followed by `blank` empty lines
TestFunctions(tcg, scens, blank) ==
    IF scens = <<>> THEN <<>>
    ELSE _generate_test_function(tcg, Head(scens)) \o blank
         \o TestFunctions(tcg, Tail(scens), blank)

\* TestCodeGenerator.generate_test_file, as the list of the lines it joins
generate_test_file(tcg) ==
    IF HAS_LANGUAGE_GENERATORS /\ tcg.language # "python"
    THEN (IF tcg.language \in {"cpp", "java", "go"}
          THEN <<"// Unit tests for " \o tcg.qualified_name,
                 "// Generated: " \o Now, "">>
          ELSE <<"\"\"\"", "Unit tests for " \o tcg.qualified_name,
                 "Generated: " \o Now, "\"\"\"", "">>)
         \o generate_file_header(get_test_generator(tcg.language), tcg.func_name,
                                 IF tcg.source_file_path # None
                                 THEN get_module_name(tcg.source_file_path) ELSE "module")
         \o <<"">>
         \o TestFunctions(tcg, tcg.scenarios, <<"">>)
         \o (IF tcg.language \in {"javascript", "typescript"} THEN <<"});">>
             ELSE IF tcg.language = "java" THEN <<"}">> ELSE <<>>)
    ELSE <<"\"\"\"", "Unit tests for " \o tcg.qualified_name, "Generated: " \o Now,
           "Language: " \o tcg.language, "\"\"\"", "",
           "import pytest">>
         \o (IF tcg.is_async THEN <<"import asyncio">> ELSE <<>>)
         \o <<"", _generate_import_statement(tcg), "", "">>
         \o TestFunctions(tcg, tcg.scenarios, <<"", "">>)
         \o (IF tcg.is_async
             THEN <<"if __name__ == \"__main__\":", "    pytest.main([__file__])">>
             ELSE <<>>)

RECURSIVE TestsLoopNoSkip(_, _, _, _, _, _)
\* a variant of the loop that generates a file for every function, without
\* the `continue` for a function that has no scenarios
TestsLoopNoSkip(funcs, scens, source_file_path, custom, lang, files) ==
    IF funcs = <<>> THEN files
    ELSE LET func_info == Head(funcs)
             func_scenarios == DictGet(scens, func_info.qualified_name, <<>>)
             func_custom_values == DictGet(custom, func_info.qualified_name, <<>>)
             next == DictSet(files, func_info.qualified_name,
                             generate_test_file(
                                 TestCodeGenerator(func_info, func_scenarios,
                                                   source_file_path,
                                                   func_custom_values, lang)))
         IN  TestsLoopNoSkip(Tail(funcs), scens, source_file_path, custom, lang, next)

RECURSIVE TestsLoopSharedCustom(_, _, _, _, _, _)
\* a variant of the loop that gives every generator the custom values of the
\* first function of the custom-values dict
TestsLoopSharedCustom(funcs, scens, source_file_path, custom, lang, files) ==
    IF funcs = <<>> THEN files
    ELSE LET func_info == Head(funcs)
             func_scenarios == DictGet(scens, func_info.qualified_name, <<>>)
             func_custom_values == IF custom = <<>> THEN <<>> ELSE custom[1].value
             next ==
                IF func_scenarios = <<>> THEN files
                ELSE DictSet(files, func_info.qualified_name,
                             generate_test_file(
                                 TestCodeGenerator(func_info, func_scenarios,
                                                   source_file_path,
                                                   func_custom_values, lang)))
         IN  TestsLoopSharedCustom(Tail(funcs), scens, source_file_path, custom, lang,
                                   next)

RECURSIVE TestsLoop(_, _, _, _, _, _)
\* the loop of generate_tests_for_functions over the functions left
TestsLoop(funcs, scens, source_file_path, custom, lang, files) ==
    IF funcs = <<>> THEN files
    ELSE LET func_info == Head(funcs)
             func_scenarios == DictGet(scens, func_info.qualified_name, <<>>)
             func_custom_values == DictGet(custom, func_info.qualified_name, <<>>)
             next ==
                IF func_scenarios = <<>> THEN files
                ELSE DictSet(files, func_info.qualified_name,
                             generate_test_file(
                                 TestCodeGenerator(func_info, func_scenarios,
                                                   source_file_path,
                                                   func_custom_values, lang)))
         IN  TestsLoop(Tail(funcs), scens, source_file_path, custom, lang, next)

\* generate_tests_for_functions
generate_tests_for_functions(funcs, scens, source_file_path, custom, lang) ==
    TestsLoop(funcs, scens, source_file_path, custom,
              IF lang = None THEN "python" ELSE lang, <<>>)

----------------------------------------------------------------------------
(* language_detector.get_test_file_name *)

get_test_file_name(source, lang) ==
    LET module_name == get_module_name(source)
        ext == PathSuffix(source)
    IN  IF lang \notin DOMAIN LANGUAGE_CONFIGS THEN "test_" \o PathName(source)
        ELSE IF lang = "python" THEN "test_" \o module_name \o ".py"
        ELSE IF lang \in {"javascript", "typescript"} THEN module_name \o ".test" \o ext
        ELSE IF lang = "java" THEN module_name \o "Test.java"
        ELSE IF lang = "csharp" THEN module_name \o "Tests.cs"
        ELSE IF lang = "go" THEN module_name \o "_test.go"
        ELSE IF lang = "ruby" THEN module_name \o "_spec.rb"
        ELSE IF lang = "php" THEN module_name \o "Test.php"
        ELSE IF lang = "rust" THEN module_name \o "_test.rs"
        ELSE IF lang = "cpp" THEN module_name \o "_test.cpp"
        ELSE "test_" \o module_name \o ext

----------------------------------------------------------------------------
(* pipeline.py: UniversalTestGenerationPipeline *)

\* the stages of run() in the order it calls them
Stages ==
    <<"validate_source_file", "extract_functions", "generate_scenarios",
      "generate_tests", "save_tests">>

StageIndex(stage) == CHOOSE i \in 1..Len(Stages) : Stages[i] = stage

\* run() that goes on to the next stage whatever the stage returned
AfterStageIgnoringResult(stage, ok) ==
    IF StageIndex(stage) < Len(Stages) THEN Stages[StageIndex(stage) + 1] ELSE "done"

\* run() that saves what there is when an earlier stage returned False
AfterStageSavingAnyway(stage, ok) ==
    IF StageIndex(stage) = Len(Stages) THEN "done"
    ELSE IF ok THEN Stages[StageIndex(stage) + 1]
    ELSE "save_tests"

\* run(): where it goes after `stage` returned `ok`
AfterStage(stage, ok) ==
    IF ok /\ StageIndex(stage) < Len(Stages) THEN Stages[StageIndex(stage) + 1]
    ELSE "done"

\* run(): what it returns when it stops after `stage` returned `ok`
RunResult(stage, ok) == ok /\ StageIndex(stage) = Len(Stages)

\* one stage of run() has returned `ok`
StageReturns(stage, ok) ==
    /\ trace' = Append(trace, [call |-> stage, result |-> ok])
    /\ pc' = AfterStage(stage, ok)
    /\ ret' = IF pc' = "done" THEN [call |-> "run", value |-> RunResult(stage, ok)]
              ELSE ret

\* validate_source_file: what it returns and what it leaves in self.language
validate_source_file(exists, path, lang) ==
    IF ~exists THEN [result |-> FALSE, language |-> lang]
    ELSE [result |-> detect_language(path) # None, language |-> detect_language(path)]

ValidateSourceFile ==
    /\ pc = "validate_source_file"
    /\ LET v == validate_source_file(file_exists, source_file, language)
       IN  /\ language' = v.language
           /\ StageReturns("validate_source_file", v.result)
    /\ UNCHANGED <<source_file, file_exists, content, script_vars, generate_coverage, custom_values,
                   functions, scenarios, test_files, coverage_report, disk, env>>

\* universal_extractor.get_functions_from_any_file: the functions the
\* extractor of the file's language finds, or the exception it raises
get_functions_from_any_file(file_content) == file_content

ExtractFunctions ==
    /\ pc = "extract_functions"
    /\ LET r == get_functions_from_any_file(content)
       IN  IF r.raised
           THEN /\ UNCHANGED functions
                /\ StageReturns("extract_functions", FALSE)
           ELSE /\ functions' = r.value
                /\ StageReturns("extract_functions", r.value # <<>>)
    /\ UNCHANGED <<source_file, file_exists, content, script_vars, generate_coverage, custom_values,
                   language, scenarios, test_files, coverage_report, disk, env>>

GenerateScenarios ==
    /\ pc = "generate_scenarios"
    /\ LET r == generate_scenarios_for_functions(functions)
       IN  IF r.raised
           THEN /\ UNCHANGED scenarios
                /\ StageReturns("generate_scenarios", FALSE)
           ELSE /\ scenarios' = r.value
                /\ StageReturns("generate_scenarios", TRUE)
    /\ UNCHANGED <<source_file, file_exists, content, script_vars, generate_coverage, custom_values,
                   language, functions, test_files, coverage_report, disk, env>>

\* a value of the custom-values JSON that is not an object (a number in
\* place of a function's dict) is kept under this key
NotADict == "<not a dict>"

\* whether generate_tests_for_functions raises (TypeError): a function that
\* has scenarios has custom values that are not a dict, and the generator
\* looks a name up in them (`param_name in self.custom_values`,
\* `"expected_result" in self.custom_values`)
GenerateTestsRaises(funcs, scens, custom, lang) ==
    \E i \in 1..Len(funcs) :
        LET func_scenarios == DictGet(scens, funcs[i].qualified_name, <<>>)
            func_custom_values == DictGet(custom, funcs[i].qualified_name, <<>>)
            tcg == TestCodeGenerator(funcs[i], func_scenarios, None, <<>>, lang)
        IN  /\ func_scenarios # <<>>
            /\ NotADict \in DictKeys(func_custom_values)
            /\ lang = "python" \/ tcg.params # <<>>

GenerateTests ==
    /\ pc = "generate_tests"
    /\ IF GenerateTestsRaises(functions, scenarios, custom_values, language)
       THEN /\ UNCHANGED test_files
            /\ StageReturns("generate_tests", FALSE)
       ELSE /\ test_files' = generate_tests_for_functions(functions, scenarios,
                                                         source_file, custom_values,
                                                         language)
            /\ StageReturns("generate_tests", TRUE)
    /\ UNCHANGED <<source_file, file_exists, content, script_vars, generate_coverage, custom_values,
                   language, functions, scenarios, coverage_report, disk, env>>

\* the file name save_tests gives the entry of qualified_name
TestFileName(qualified_name) ==
    LET test_filename == get_test_file_name(source_file, language)
    IN  IF Len(test_files) > 1
        THEN PathStem(test_filename) \o "_" \o Replace(qualified_name, ".", "_")
             \o PathSuffix(test_filename)
        ELSE test_filename

\* save_tests: the writes it makes, in order; open() fails at the entry
\* disk.open_fails_at (0: never)
SaveTests ==
    /\ pc = "save_tests"
    /\ IF ~disk.makedirs_ok
       THEN /\ UNCHANGED disk
            /\ StageReturns("save_tests", FALSE)
       ELSE LET failing == disk.open_fails_at \in 1..Len(test_files)
                n == IF failing THEN disk.open_fails_at - 1 ELSE Len(test_files)
            IN  /\ disk' = [disk EXCEPT
                              !.dir_exists = TRUE,
                              !.written = [i \in 1..n |->
                                             [path |-> TestFileName(test_files[i].key),
                                              key |-> test_files[i].key]]]
                /\ StageReturns("save_tests", ~failing)
    /\ UNCHANGED <<source_file, file_exists, content, script_vars, generate_coverage, custom_values,
                   language, functions, scenarios, test_files, coverage_report, env>>

----------------------------------------------------------------------------
(* The inputs the specifications draw from *)

MaxParams == 2      \* positional parameters of a function, self aside
MaxFuncs == 2       \* functions in one file

\* parameter names by position (a function cannot name two parameters alike)
ParamNames == <<"a", "b", "c", "d">>

Annotations == {None, "int", "str", "List[str]"}

Param(name, annotation) == [name |-> name, annotation |-> annotation]

\* the parameter lists with k parameters after an optional self
ParamListsOf(k) ==
    LET plain == {[i \in 1..k |-> Param(ParamNames[i], ann[i])] :
                     ann \in [1..k -> Annotations]}
    IN  plain \cup {<<Param("self", None)>> \o p : p \in plain}

ParamLists == UNION {ParamListsOf(k) : k \in 0..MaxParams}

\* sequences over S of length 0..n
SeqsUpTo(S, n) == UNION {[1..k -> S] : k \in 0..n}

\* the functions of the Python file the pipeline runs on
PipelinePythonFunctions ==
    {FunctionInfo("f", None, FALSE,
                  Source("def", <<Param("a", "int"), Param("b", "str")>>, "int", None,
                         TRUE, FALSE, <<"ValueError">>)),
     FunctionInfo("g", None, FALSE,
                  Source("def", <<Param("a", None)>>, None, None, FALSE, FALSE, <<>>)),
     FunctionInfo("m", "C", TRUE,
                  Source("def", <<Param("self", None), Param("a", "List[str]")>>, None,
                         "list", FALSE, TRUE, <<>>)),
     FunctionInfo("h", None, FALSE,
                  Source("def", <<>>, None, None, FALSE, FALSE, <<>>))}

\* the functions the regex extractors find in a file of another language
PipelineTextFunctions ==
    {FunctionInfo("f", None, FALSE, NoSource("text")),
     FunctionInfo("g", None, TRUE, NoSource("text"))}

\* what the extractor can find in the file at `path`
Contents(path) ==
    IF detect_language(path) = None THEN {Ok(<<>>)}
    ELSE {Raise("Exception")}
         \cup {Ok(l) : l \in SeqsUpTo(IF detect_language(path) = "python"
                                     THEN PipelinePythonFunctions
                                     ELSE PipelineTextFunctions, MaxFuncs)}

PipelinePaths == {"calc.py", "src/App.JS", "lib.rb", "Main.java", "notes.txt"}

PipelineCustomValues ==
    {<<>>, <<[key |-> "f", value |-> <<[key |-> "a", value |-> IntValue(5)]>>]>>}

\* custom values in which the value given for f is the number 5
MalformedCustomValues ==
    {<<[key |-> "f", value |-> <<[key |-> NotADict, value |-> IntValue(5)]>>]>>}

Disks ==
    {[makedirs_ok |-> FALSE, open_fails_at |-> 0, dir_exists |-> FALSE, written |-> <<>>]}
    \cup {[makedirs_ok |-> TRUE, open_fails_at |-> k, dir_exists |-> FALSE, written |-> <<>>] :
             k \in 0..MaxFuncs}

NoDisk == [makedirs_ok |-> TRUE, open_fails_at |-> 0, dir_exists |-> FALSE, written |-> <<>>]
NoEnv == [script |-> None]
NoCall == [call |-> None, value |-> None]

\* no script of ai-unit-test-generator and no FunctionExtractor is running
IdleScripts ==
    /\ stdin = None
    /\ stdout = None
    /\ stderr = <<>>
    /\ exit_status = None
    /\ node_attempts = <<>>
    /\ class_stack = <<>>
    /\ visiting = <<>>

----------------------------------------------------------------------------
(* Spec: one run() of a pipeline just constructed *)

\* UniversalTestGenerationPipeline.__init__, then run() is called
Init ==
    /\ source_file \in PipelinePaths
    /\ file_exists \in BOOLEAN
    /\ content \in Contents(source_file)
    /\ generate_coverage \in BOOLEAN
    /\ custom_values \in PipelineCustomValues \cup MalformedCustomValues
    /\ language = None
    /\ functions = <<>>
    /\ scenarios = <<>>
    /\ test_files = <<>>
    /\ coverage_report = None
    /\ disk \in Disks
    /\ env = NoEnv
    /\ pc = "validate_source_file"
    /\ trace = <<>>
    /\ ret = NoCall
    /\ IdleScripts

Next ==
    \/ ValidateSourceFile
    \/ ExtractFunctions
    \/ GenerateScenarios
    \/ GenerateTests
    \/ SaveTests

Spec == Init /\ [][Next]_vars

\* C1: run() calls the stages in the fixed order validate_source_file,
\* extract_functions, generate_scenarios, generate_tests, save_tests; a stage
\* is called only after every earlier stage returned True; the first stage
\* that returns False ends the run with False and no later stage is called;
\* run() returns True exactly when all five stages returned True.
C1_StagesInOrder ==
    /\ Len(trace) <= Len(Stages)
    /\ \A i \in 1..Len(trace) :
          /\ trace[i].call = Stages[i]
          /\ i < Len(trace) => trace[i].result
    /\ pc # "done" =>
          /\ \A i \in 1..Len(trace) : trace[i].result
          /\ pc = Stages[Len(trace) + 1]
    /\ pc = "done" =>
          /\ ret.call = "run"
          /\ ret.value = (Len(trace) = Len(Stages) /\ \A i \in 1..Len(trace) : trace[i].result)
          /\ ~ret.value => ~trace[Len(trace)].result

\* a run that generate_scenarios ended: it returned False after two stages
\* returned True, and generate_tests and save_tests were not called
C1_Witness ==
    /\ pc = "done"
    /\ Len(trace) = 3
    /\ ~trace[3].result
    /\ ret = [call |-> "run", value |-> FALSE]

\* C2: a pipeline built with generate_coverage=True has, after every run()
\* that returns True, made the coverage analysis: coverage_report is set and
\* the HTML report is saved in the output directory; with
\* generate_coverage=False coverage_report stays None.
C2_CoverageAfterRun ==
    (pc = "done" /\ ret.value = TRUE) =>
        IF generate_coverage
        THEN /\ coverage_report # None
             /\ \E i \in 1..Len(disk.written) : disk.written[i].path = "coverage_report.html"
        ELSE coverage_report = None

\* C11: after a run() that returns True, the number of test files written
\* to the output directory equals the number of functions extracted: every
\* extracted function has its own entry in scenarios and in test_files, and
\* no two entries are written to the same file path.
C11_OneFilePerFunction ==
    (pc = "done" /\ ret.value = TRUE) =>
        /\ Len(disk.written) = Len(functions)
        /\ Len(scenarios) = Len(functions)
        /\ Len(test_files) = Len(functions)
        /\ \A i \in 1..Len(functions) :
              /\ functions[i].qualified_name \in DictKeys(scenarios)
              /\ functions[i].qualified_name \in DictKeys(test_files)
        /\ \A i, j \in 1..Len(disk.written) :
              i # j => disk.written[i].path # disk.written[j].path

\* C21: when validate_source_file, extract_functions, generate_scenarios or
\* generate_tests fails, run() leaves the file system as it was: the output
\* directory is not created and no test file is written; only save_tests
\* writes, so nothing is written before save_tests is called.
C21_NoWritesBeforeSave ==
    LET failed_early == \E i \in 1..Len(trace) :
                            trace[i].call # "save_tests" /\ ~trace[i].result
        not_saved == \A i \in 1..Len(trace) : trace[i].call # "save_tests"
    IN  (failed_early \/ not_saved) => (~disk.dir_exists /\ disk.written = <<>>)

\* a run that generate_tests ended (the custom values of f are not a dict)
\* on a disk that could be written: nothing was created
C21_Witness ==
    /\ pc = "done"
    /\ ret = [call |-> "run", value |-> FALSE]
    /\ Len(trace) = 4
    /\ trace[4] = [call |-> "generate_tests", result |-> FALSE]
    /\ disk.makedirs_ok
    /\ ~disk.dir_exists
    /\ disk.written = <<>>

----------------------------------------------------------------------------
(* SpecDetect: the language detector called on one path *)

DetectDirs == {"", "src/", "pkg.js/"}
DetectStems == {"calc", "", "calc.py", "a.tar"}
DetectExtensions ==
    {"", ".", ".py", ".PY", ".Py", ".js", ".JSX", ".ts", ".tsx", ".java", ".cs", ".go",
     ".rb", ".php", ".rs", ".cpp", ".CC", ".cxx", ".hpp", ".h", ".txt", ".pyc", ".c", "/"}

DetectPaths == {d \o n \o e : d \in DetectDirs, n \in DetectStems, e \in DetectExtensions}

\* nothing of a pipeline is in use
IdlePipeline ==
    /\ content = Ok(<<>>)
    /\ generate_coverage = TRUE
    /\ custom_values = <<>>
    /\ language = None
    /\ functions = <<>>
    /\ scenarios = <<>>
    /\ test_files = <<>>
    /\ coverage_report = None
    /\ disk = NoDisk

InitDetect ==
    /\ source_file \in DetectPaths
    /\ file_exists \in BOOLEAN
    /\ IdlePipeline
    /\ env = NoEnv
    /\ pc = "idle"
    /\ trace = <<>>
    /\ ret = NoCall
    /\ IdleScripts

\* a call of detect_language(source_file)
CallDetectLanguage ==
    /\ pc = "idle"
    /\ ret' = [call |-> "detect_language", value |-> detect_language(source_file)]
    /\ pc' = "returned"
    /\ UNCHANGED <<source_file, file_exists, content, script_vars, pipeline_vars, env, trace>>

\* a call of is_supported_language(source_file), as main() makes it
CallIsSupportedLanguage ==
    /\ pc = "idle"
    /\ ret' = [call |-> "is_supported_language", value |-> is_supported_language(source_file)]
    /\ pc' = "returned"
    /\ UNCHANGED <<source_file, file_exists, content, script_vars, pipeline_vars, env, trace>>

\* a call of pipeline.validate_source_file()
CallValidateSourceFile ==
    /\ pc = "idle"
    /\ LET v == validate_source_file(file_exists, source_file, language)
       IN  /\ language' = v.language
           /\ ret' = [call |-> "validate_source_file", value |-> v.result]
    /\ pc' = "returned"
    /\ UNCHANGED <<source_file, file_exists, content, script_vars, generate_coverage, custom_values,
                   functions, scenarios, test_files, coverage_report, disk, env, trace>>

NextDetect ==
    \/ CallDetectLanguage
    \/ CallIsSupportedLanguage
    \/ CallValidateSourceFile

SpecDetect == InitDetect /\ [][NextDetect]_vars

\* the languages whose config lists the extension ext
LanguagesListing(ext) ==
    {k \in DOMAIN LANGUAGE_CONFIGS : ext \in Range(LANGUAGE_CONFIGS[k].extensions)}

\* C9: detect_language depends only on the lower-cased final extension of the
\* path: it returns the one language whose config lists that extension (no
\* extension is listed by two languages) and None otherwise;
\* validate_source_file returns True exactly when the file exists and a
\* language was detected, and is_supported_language agrees with detect_language.
C9_DetectByExtension ==
    LET ext == Lower(PathSuffix(source_file))
    IN  /\ Cardinality(LanguagesListing(ext)) <= 1
        /\ ret.call = "detect_language" =>
              /\ ret.value # None => LanguagesListing(ext) = {ret.value}
              /\ ret.value = None => LanguagesListing(ext) = {}
              /\ \A p \in DetectPaths :
                    Lower(PathSuffix(p)) = ext => detect_language(p) = ret.value
        /\ ret.call = "is_supported_language" =>
              ret.value = (LanguagesListing(ext) # {})
        /\ ret.call = "validate_source_file" =>
              /\ ret.value = (file_exists /\ LanguagesListing(ext) # {})
              /\ ret.value => LanguagesListing(ext) = {language}

\* detect_language has returned python for an existing path whose extension
\* is written in upper case
C9_Witness ==
    /\ ret.call = "detect_language"
    /\ ret.value = "python"
    /\ PathSuffix(source_file) = ".PY"
    /\ file_exists

----------------------------------------------------------------------------
(* SpecScenarios: the scenario generator called on a list of functions *)

ReturnShapes ==
    {[returns |-> None, return_value |-> None],
     [returns |-> "int", return_value |-> None],
     [returns |-> None, return_value |-> "str"]}

RaiseLists == {<<>>, <<"ValueError">>, <<"ValueError", "ValueError">>, <<"TypeError", "KeyError">>}

DefSources ==
    {Source("def", p, r.returns, r.return_value, i, l, x) :
        p \in ParamLists, r \in ReturnShapes, i \in BOOLEAN, l \in BOOLEAN, x \in RaiseLists}

AllSources == DefSources \cup {NoSource("none"), NoSource("empty"), NoSource("text")}

\* the lists of functions the generator is called on: every single function,
\* and the lists of up to MaxFuncs functions of a file
ScenarioInputs ==
    {<<FunctionInfo("f", None, FALSE, src)>> : src \in AllSources}
    \cup SeqsUpTo(PipelinePythonFunctions \cup PipelineTextFunctions, MaxFuncs)

InitScenarios ==
    /\ functions \in ScenarioInputs
    /\ source_file = "calc.py"
    /\ file_exists = TRUE
    /\ content = Ok(<<>>)
    /\ generate_coverage = TRUE
    /\ custom_values = <<>>
    /\ language = None
    /\ scenarios = <<>>
    /\ test_files = <<>>
    /\ coverage_report = None
    /\ disk = NoDisk
    /\ env = NoEnv
    /\ pc = "idle"
    /\ trace = <<>>
    /\ ret = NoCall
    /\ IdleScripts

\* a call of generate_scenarios_for_functions(functions)
CallGenerateScenariosForFunctions ==
    /\ pc = "idle"
    /\ ret' = [call |-> "generate_scenarios_for_functions",
               value |-> generate_scenarios_for_functions(functions)]
    /\ pc' = "returned"
    /\ UNCHANGED <<source_file, file_exists, content, script_vars, pipeline_vars, env, trace>>

\* a call of ScenarioGenerator(functions[i]).generate()
CallGenerate ==
    /\ pc = "idle"
    /\ \E i \in 1..Len(functions) :
          ret' = [call |-> "generate", function |-> functions[i],
                  value |-> generate(ScenarioGenerator(functions[i]))]
    /\ pc' = "returned"
    /\ UNCHANGED <<source_file, file_exists, content, script_vars, pipeline_vars, env, trace>>

NextScenarios ==
    \/ CallGenerateScenariosForFunctions
    \/ CallGenerate

SpecScenarios == InitScenarios /\ [][NextScenarios]_vars

DistinctQualifiedNames(funcs) ==
    \A i, j \in 1..Len(funcs) : i # j => funcs[i].qualified_name # funcs[j].qualified_name

\* C3: scenario generation is independent per function: for a list of
\* functions with pairwise distinct qualified names, the entry of
\* generate_scenarios_for_functions(functions) under q is what
\* ScenarioGenerator(f).generate() returns for the function f named q,
\* whatever the other functions of the list are and whatever their order.
C3_IndependentPerFunction ==
    (ret.call = "generate_scenarios_for_functions" /\ DistinctQualifiedNames(functions)) =>
        \A i \in 1..Len(functions) :
            LET alone == generate(ScenarioGenerator(functions[i]))
            IN  ~alone.raised =>
                   /\ ~ret.value.raised
                   /\ functions[i].qualified_name \in DictKeys(ret.value.value)
                   /\ DictGet(ret.value.value, functions[i].qualified_name, <<>>)
                        = alone.value

\* C4: ScenarioGenerator.generate() returns a scenario list for every
\* function_info and never raises, for parameters without annotation and for
\* missing or unparsable sources alike.
C4_GenerateNeverRaises ==
    ret.call = "generate" => ~ret.value.raised

\* C15: the scenario names generate() returns for one function are pairwise
\* distinct (so the test file never defines two test functions of one name),
\* also when the function raises the same exception type at several places.
C15_ScenarioNamesDistinct ==
    (ret.call = "generate" /\ ~ret.value.raised) =>
        \A i, j \in 1..Len(ret.value.value) :
            i # j => ret.value.value[i].scenario_name # ret.value.value[j].scenario_name

\* how many scenarios of the list l have the name
CountNamed(l, name) == Len(SelectSeq(l, LAMBDA sc : sc.scenario_name = name))

\* C16: whenever generate() returns, the first scenario is
\* test_normal_execution (happy_path); the scenarios of category 'exception'
\* are one test_raises_<name> per raise found, or exactly one
\* test_invalid_input when none was found, so there is at least one; and
\* test_return_type, test_conditional_branches and test_loop_behavior each
\* appear at most once and only when a return type, an if or a loop was found.
C16_ScenarioListShape ==
    (ret.call = "generate" /\ ~ret.value.raised) =>
        LET l == ret.value.value
            src == ret.function.func_source
            found == _check_exceptions(src)
            exc == SelectSeq(l, LAMBDA sc : sc.category = "exception")
        IN  /\ Len(l) >= 1
            /\ l[1].scenario_name = "test_normal_execution"
            /\ l[1].category = "happy_path"
            /\ Len(exc) >= 1
            /\ IF found # <<>>
               THEN /\ Len(exc) = Len(found)
                    /\ \A n \in 1..Len(exc) :
                          /\ StartsWith(exc[n].scenario_name, "test_raises_")
                          /\ Contains(exc[n].description, found[n])
                    /\ CountNamed(l, "test_invalid_input") = 0
               ELSE /\ Len(exc) = 1
                    /\ exc[1].scenario_name = "test_invalid_input"
            /\ CountNamed(l, "test_return_type") <= 1
            /\ CountNamed(l, "test_return_type") = 1 => _infer_return_type(src) # None
            /\ CountNamed(l, "test_conditional_branches") <= 1
            /\ CountNamed(l, "test_conditional_branches") = 1 => _has_conditionals(src)
            /\ CountNamed(l, "test_loop_behavior") <= 1
            /\ CountNamed(l, "test_loop_behavior") = 1 => _has_loops(src)

\* generate() returned the list of a function that raises ValueError at two
\* places and has a return type, an if and a loop: two test_raises scenarios
\* and one of each of the three others
C16_Witness ==
    /\ ret.call = "generate"
    /\ ~ret.value.raised
    /\ _check_exceptions(ret.function.func_source) = <<"ValueError", "ValueError">>
    /\ CountNamed(ret.value.value, "test_raises_value") = 2
    /\ CountNamed(ret.value.value, "test_return_type") = 1
    /\ CountNamed(ret.value.value, "test_conditional_branches") = 1
    /\ CountNamed(ret.value.value, "test_loop_behavior") = 1

\* generate() returned the list of a function in which no raise was found
C16_WitnessNoRaise ==
    /\ ret.call = "generate"
    /\ ~ret.value.raised
    /\ _check_exceptions(ret.function.func_source) = <<>>
    /\ CountNamed(ret.value.value, "test_invalid_input") = 1

\* C17: for each parameter other than self and cls, generate() emits the
\* edge-case scenarios of its annotation (test_<p>_zero and test_<p>_negative
\* for int or float, test_<p>_empty_string for str, test_<p>_empty for a list
\* or tuple) and, annotated or not, exactly one test_<p>_none scenario.
C17_EdgeCasesPerParameter ==
    (ret.call = "generate" /\ ret.function.func_source.kind = "def") =>
        /\ ~ret.value.raised
        /\ LET l == ret.value.value
               params == _extract_parameters(ret.function.func_source)
           IN  \A n \in 1..Len(params) :
                  LET name == params[n].name
                      ann == params[n].annotation
                      type == IF ann = None THEN "" ELSE Lower(ann)
                  IN  /\ CountNamed(l, "test_" \o name \o "_none") = 1
                      /\ type \in {"int", "float"} =>
                            /\ CountNamed(l, "test_" \o name \o "_zero") = 1
                            /\ CountNamed(l, "test_" \o name \o "_negative") = 1
                      /\ type = "str" =>
                            CountNamed(l, "test_" \o name \o "_empty_string") = 1
                      /\ (StartsWith(type, "list") \/ StartsWith(type, "tuple")) =>
                            CountNamed(l, "test_" \o name \o "_empty") = 1

\* C25: for a function whose source cannot be parsed as Python (as the source
\* of a function of a non-Python file) the ScenarioGenerator has empty
\* analysis results (no parameters, no return type, no conditionals, loops or
\* exceptions) and generate() returns exactly two scenarios,
\* test_normal_execution followed by test_invalid_input.
C25_UnparsableSourceFallback ==
    (ret.call = "generate" /\ ~Parses(ret.function.func_source)) =>
        LET g == ScenarioGenerator(ret.function)
        IN  /\ g.params = <<>>
            /\ g.return_type = None
            /\ ~g.has_conditionals
            /\ ~g.has_loops
            /\ g.raises_exceptions = <<>>
            /\ ~ret.value.raised
            /\ Len(ret.value.value) = 2
            /\ ret.value.value[1].scenario_name = "test_normal_execution"
            /\ ret.value.value[2].scenario_name = "test_invalid_input"

\* generate() returned the two scenarios for a function of a non-Python file
C25_Witness ==
    /\ ret.call = "generate"
    /\ ret.function.func_source.kind = "text"
    /\ ~ret.value.raised
    /\ Len(ret.value.value) = 2
    /\ ret.value.value[2].scenario_name = "test_invalid_input"

----------------------------------------------------------------------------
(* SpecTests: the test generator called on functions with their scenarios *)

NoneValue == [t |-> "none", v |-> "None"]

\* the functions tests are generated for: a method (with self) of class C or
\* a plain function
TestFunctionPool ==
    {FunctionInfo("calc_sum", IF p # <<>> /\ p[1].name = "self" THEN "C" ELSE None, FALSE,
                  Source("def", p, r, None, FALSE, FALSE, x)) :
        p \in ParamLists, r \in {None, "int"}, x \in {<<>>, <<"ValueError">>}}
    \cup {FunctionInfo("fetch", None, TRUE,
                       Source("def", <<Param("a", "str")>>, "List[str]", None,
                              FALSE, FALSE, <<>>))}

\* the sample_scenarios of the module's example
SampleScenarios(func_name) ==
    <<Scenario("test_normal_execution", "Test " \o func_name \o " with valid inputs",
               "happy_path", "functional"),
      Scenario("test_negative_values",
               "Test " \o func_name \o " raises error for negative values",
               "exception", "error_handling")>>

\* the scenario lists a function comes with: the generator's, when it
\* returns one, and the hand-written sample
ScenarioListsOf(f) ==
    LET made == generate(ScenarioGenerator(f))
    IN  {SampleScenarios(f.func_name)} \cup (IF made.raised THEN {} ELSE {made.value})

\* custom values of one function, as the JSON of --custom-values gives them
CustomParamValues ==
    {<<[key |-> "a", value |-> IntValue(5)]>>,
     <<[key |-> "a", value |-> StrValue("hi")]>>,
     <<[key |-> "b", value |-> NoneValue], [key |-> "a", value |-> BoolValue(TRUE)]>>,
     <<[key |-> "a", value |-> IntValue(5)], [key |-> "b", value |-> IntValue(3)],
       [key |-> "expected_result", value |-> IntValue(8)]>>}

\* the custom_values dicts for a function named q: none, for q, for another
CustomValuesFor(q) ==
    {<<>>}
    \cup {<<[key |-> q, value |-> c]>> : c \in CustomParamValues}
    \cup {<<[key |-> "other", value |-> c], [key |-> q, value |-> <<>>]>> :
             c \in CustomParamValues}

\* a source file of each language
SourceFileOf(lang) == "src/calc" \o LANGUAGE_CONFIGS[lang].extensions[1]

RECURSIVE ScenarioChoices(_)
\* the scenario dicts in which each of the functions funcs has the sample
\* list, an empty list or no entry
ScenarioChoices(funcs) ==
    IF funcs = <<>> THEN {<<>>}
    ELSE LET q == Head(funcs).qualified_name
             rest == ScenarioChoices(Tail(funcs))
         IN  rest \cup {DictSet(d, q, <<>>) : d \in rest}
                  \cup {DictSet(d, q, SampleScenarios(Head(funcs).func_name)) : d \in rest}

InitTests ==
    /\ \/ /\ language = "python"
          /\ \E f \in TestFunctionPool :
                /\ functions = <<f>>
                /\ \E l \in ScenarioListsOf(f) :
                      scenarios = <<[key |-> f.qualified_name, value |-> l]>>
                /\ custom_values \in CustomValuesFor(f.qualified_name)
       \/ /\ language \in Range(LanguageKeys)
          /\ functions \in SeqsUpTo(IF language = "python" THEN PipelinePythonFunctions
                                     ELSE PipelineTextFunctions, MaxFuncs) \ {<<>>}
          /\ scenarios = [i \in 1..Len(functions) |->
                            [key |-> functions[i].qualified_name,
                             value |-> SampleScenarios(functions[i].func_name)]]
          /\ custom_values \in PipelineCustomValues
       \/ /\ language \in {"python", "go"}
          /\ functions \in SeqsUpTo(IF language = "python" THEN PipelinePythonFunctions
                                     ELSE PipelineTextFunctions, MaxFuncs) \ {<<>>}
          /\ scenarios \in ScenarioChoices(functions)
          /\ custom_values = <<>>
    /\ source_file = SourceFileOf(language)
    /\ file_exists = TRUE
    /\ content = Ok(functions)
    /\ generate_coverage = TRUE
    /\ test_files = <<>>
    /\ coverage_report = None
    /\ disk = NoDisk
    /\ env = NoEnv
    /\ pc = "idle"
    /\ trace = <<>>
    /\ ret = NoCall
    /\ IdleScripts

\* the TestCodeGenerator that generate_tests_for_functions builds for functions[i]
GeneratorOf(i) ==
    TestCodeGenerator(functions[i],
                      DictGet(scenarios, functions[i].qualified_name, <<>>),
                      source_file,
                      DictGet(custom_values, functions[i].qualified_name, <<>>),
                      language)

\* a call of get_test_generator(language)
CallGetTestGenerator ==
    /\ pc = "idle"
    /\ ret' = [call |-> "get_test_generator", value |-> get_test_generator(language)]
    /\ pc' = "returned"
    /\ UNCHANGED <<source_file, file_exists, content, script_vars, pipeline_vars, env, trace>>

\* a call of _generate_test_function(scenario) on the generator of a function,
\* with the test_args its calls of _generate_test_data return
CallGenerateTestFunction ==
    /\ pc = "idle"
    /\ \E i \in 1..Len(functions) :
          LET tcg == GeneratorOf(i)
          IN  \E k \in 1..Len(tcg.scenarios) :
                 ret' = [call |-> "_generate_test_function",
                         function |-> i,
                         scenario |-> tcg.scenarios[k],
                         test_args |-> TestArgs(tcg, tcg.scenarios[k]),
                         value |-> _generate_test_function(tcg, tcg.scenarios[k])]
    /\ pc' = "returned"
    /\ UNCHANGED <<source_file, file_exists, content, script_vars, pipeline_vars, env, trace>>

\* a call of generate_tests_for_functions, as pipeline.generate_tests makes it
CallGenerateTestsForFunctions ==
    /\ pc = "idle"
    /\ test_files' = generate_tests_for_functions(functions, scenarios, source_file,
                                                  custom_values, language)
    /\ ret' = [call |-> "generate_tests_for_functions", value |-> Len(test_files')]
    /\ pc' = "returned"
    /\ UNCHANGED <<source_file, file_exists, content, script_vars, generate_coverage, custom_values,
                   language, functions, scenarios, coverage_report, disk, env, trace>>

NextTests ==
    \/ CallGetTestGenerator
    \/ CallGenerateTestFunction
    \/ CallGenerateTestsForFunctions

SpecTests == InitTests /\ [][NextTests]_vars

\* C7: for every key of LANGUAGE_CONFIGS, get_test_generator(language) returns
\* a generator for the test framework that the language's LanguageConfig
\* names, never the generator of another language.
C7_GeneratorOfLanguage ==
    ret.call = "get_test_generator" =>
        GeneratorFramework(ret.value) = LANGUAGE_CONFIGS[language].test_framework

\* how a custom value is written into a test: quoted when it is a string
CustomText(value) == IF value.t = "str" THEN "\"" \o value.v \o "\"" ELSE value.v

\* C10: in every generated test of a function, each parameter that has a custom
\* value gets that value (quoted when it is a string) as its argument, whatever
\* the scenario name and the parameter's type say, and the call in the test is
\* made with these arguments.
C10_CustomValueFirst ==
    ret.call = "_generate_test_function" =>
        LET f == functions[ret.function]
            custom == DictGet(custom_values, f.qualified_name, <<>>)
            params == _extract_parameters(f.func_source)
        IN  /\ Len(ret.test_args) = Len(params)
            /\ \A j \in 1..Len(params) :
                  params[j].name \in DictKeys(custom) =>
                     ret.test_args[j] = CustomText(DictGet(custom, params[j].name, None))
            /\ \E n \in 1..Len(ret.value) :
                  Contains(ret.value[n], "(" \o Join(ret.test_args, ", ") \o ")")

\* the test of the scenario a = 0 was generated for a function whose int
\* parameter a has the custom value 5, and the test passes 5
C10_Witness ==
    /\ ret.call = "_generate_test_function"
    /\ ret.scenario.scenario_name = "test_a_zero"
    /\ LET f == functions[ret.function]
       IN  /\ f.func_source.kind = "def"
           /\ f.func_source.params # <<>>
           /\ f.func_source.params[1] = Param("a", "int")
           /\ DictGet(DictGet(custom_values, f.qualified_name, <<>>), "a", None) = IntValue(5)
    /\ ret.test_args[1] = "5"

\* whether a scenario is one of an exception
IsExceptionScenario(scenario) ==
    scenario.test_type = "exception" \/ Contains(scenario.category, "exception")

\* C14: the Python test generated for an exception scenario (test_type
\* 'exception' or a category containing 'exception') calls the function inside
\* a 'with pytest.raises(<ExceptionType>):' block and has no 'assert result'
\* line, whatever custom_values holds, expected_result included.
C14_ExceptionTestUsesRaises ==
    (/\ ret.call = "_generate_test_function"
     /\ language = "python"
     /\ IsExceptionScenario(ret.scenario)) =>
        /\ \E n \in 1..(Len(ret.value) - 1) :
              /\ StartsWith(ret.value[n], "    with pytest.raises(")
              /\ \A m \in (n + 1)..Len(ret.value) : StartsWith(ret.value[m], "        ")
              /\ Contains(ret.value[Len(ret.value)],
                          functions[ret.function].func_name \o "("
                             \o Join(ret.test_args, ", ") \o ")")
        /\ \A n \in 1..Len(ret.value) : ~Contains(ret.value[n], "assert result")

\* the boundary scenarios of a parameter and the value each is about
BoundaryValues ==
    <<[suffix |-> "_zero", value |-> "0"],
      [suffix |-> "_negative", value |-> "-1"],
      [suffix |-> "_empty_string", value |-> "\"\""],
      [suffix |-> "_empty", value |-> "[]"],
      [suffix |-> "_none", value |-> "None"]>>

\* C18: the test generated for a boundary scenario of one parameter varies
\* only that parameter: for test_<p>_zero the call passes 0 for p and, for
\* every other parameter, the value the test of test_normal_execution passes
\* (its type default); likewise for _negative, _empty and _none.  Parameters
\* with a custom value are left out.
C18_BoundaryVariesOneParameter ==
    ret.call = "_generate_test_function" =>
        LET tcg == GeneratorOf(ret.function)
        IN  \A j \in 1..Len(tcg.params) : \A b \in 1..Len(BoundaryValues) :
               (/\ ret.scenario.scenario_name
                      = "test_" \o tcg.params[j].name \o BoundaryValues[b].suffix
                /\ ret.scenario.category = "edge_case") =>
                  \A q \in 1..Len(tcg.params) :
                     tcg.params[q].name \notin DictKeys(tcg.custom_values) =>
                        ret.test_args[q] =
                           IF q = j THEN BoundaryValues[b].value
                           ELSE ScenarioTestData(tcg.params[q].annotation,
                                                 "test_normal_execution")

\* C19: the header comment of a generated test file has the comment syntax of
\* the target language: '//' lines for javascript, typescript, java, csharp,
\* go, php, rust and cpp, '#' for ruby, and a triple-quoted docstring only
\* for python.
C19_HeaderCommentOfLanguage ==
    ret.call = "generate_tests_for_functions" =>
        \A n \in 1..Len(test_files) :
            LET header == test_files[n].value[1]
            IN  IF language = "python" THEN header = "\"\"\""
                ELSE /\ header # "\"\"\""
                     /\ StartsWith(header, IF language = "ruby" THEN "#" ELSE "//")
                     /\ StartsWith(header, LANGUAGE_CONFIGS[language].comment_style)

\* the lines of a Python test file that define a function
DefLines(file) ==
    SelectSeq(file, LAMBDA line : StartsWith(line, "def ") \/ StartsWith(line, "async def "))

\* C20: generate_tests_for_functions returns an entry exactly for the
\* functions whose qualified name maps to a non-empty scenario list, and each
\* returned Python test file holds exactly one test function per scenario, in
\* the order of the scenarios.
C20_OneTestPerScenario ==
    ret.call = "generate_tests_for_functions" =>
        /\ DictKeys(test_files)
              = {functions[i].qualified_name : i \in
                    {j \in 1..Len(functions) :
                        DictGet(scenarios, functions[j].qualified_name, <<>>) # <<>>}}
        /\ language = "python" =>
              \A n \in 1..Len(test_files) :
                  LET defs == DefLines(test_files[n].value)
                      scens == DictGet(scenarios, test_files[n].key, <<>>)
                  IN  /\ Len(defs) = Len(scens)
                      /\ \A k \in 1..Len(scens) :
                            defs[k] \in {"def " \o scens[k].scenario_name \o "():",
                                         "async def " \o scens[k].scenario_name \o "():"}

\* generate_tests_for_functions was called on two Python functions of which
\* one has no scenarios: it returned one file, with the two tests of the other
C20_Witness ==
    /\ ret.call = "generate_tests_for_functions"
    /\ language = "python"
    /\ Len(functions) = 2
    /\ functions[1].qualified_name # functions[2].qualified_name
    /\ DictGet(scenarios, functions[1].qualified_name, <<>>) = <<>>
    /\ Len(DictGet(scenarios, functions[2].qualified_name, <<>>)) = 2
    /\ Len(test_files) = 1
    /\ test_files[1].key = functions[2].qualified_name
    /\ Len(DefLines(test_files[1].value)) = 2

\* C22: custom test values are scoped to one function: whatever
\* custom_values[f] is changed to (another dict of values, or none), the test
\* file generated for every function g with another qualified name stays the
\* same, its calls and assertions included.
C22_CustomValuesScoped ==
    ret.call = "generate_tests_for_functions" =>
        \A i \in 1..Len(functions) : \A c \in CustomParamValues \cup {<<>>} :
            LET f == functions[i].qualified_name
                changed == generate_tests_for_functions(
                               functions, scenarios, source_file,
                               DictSet(custom_values, f, c), language)
            IN  \A n \in 1..Len(test_files) :
                   test_files[n].key # f =>
                      DictGet(changed, test_files[n].key, <<>>) = test_files[n].value

\* tests were generated for f(a, b) and g(a) with the custom value a = 5 given
\* for f alone: the test of g does not pass 5
C22_Witness ==
    /\ ret.call = "generate_tests_for_functions"
    /\ language = "python"
    /\ Len(functions) = 2
    /\ functions[1].qualified_name = "f"
    /\ functions[2].qualified_name = "g"
    /\ DictGet(DictGet(custom_values, "f", <<>>), "a", NoneValue) = IntValue(5)
    /\ Len(test_files) = 2
    /\ \E n \in 1..Len(test_files[1].value) :
          Contains(test_files[1].value[n], "f(5, ")
    /\ \E n \in 1..Len(test_files[2].value) :
          Contains(test_files[2].value[n], "g(None)")

----------------------------------------------------------------------------
(* ai-unit-test-generator/python/extract_functions.py: get_functions.
   A file is [status, body]: whether open() and ast.parse() succeed on it and,
   when they do, the statements of its parse tree in source order, each with
   the depth of its nesting (a statement of depth d + 1 lies in the body of
   the nearest statement of depth d before it).                              *)

MaxStmts == 3       \* statements of a file that the parse tree holds

Node(type, name, decorated, depth) ==
    [type |-> type, name |-> name, decorated |-> decorated, depth |-> depth]

\* the statements of the body of body[i], in source order (of the module for i = 0)
Children(body, i) ==
    LET d == IF i = 0 THEN 0 ELSE body[i].depth + 1
    IN  SelectSeq([j \in 1..Len(body) |-> j],
                  LAMBDA j : /\ j > i
                             /\ body[j].depth = d
                             /\ \A k \in (i + 1)..(j - 1) : body[k].depth >= d)

RECURSIVE extract_from_node(_, _, _, _)
RECURSIVE ExtractFromNodes(_, _, _, _)
\* extract_from_node(node, class_name) for node = body[i]: the entries it
\* appends to `functions`
extract_from_node(file_path, body, i, class_name) ==
    IF body[i].type = "ClassDef"
    THEN ExtractFromNodes(file_path, body, Children(body, i), body[i].name)
    ELSE IF body[i].type \in {"AsyncFunctionDef", "FunctionDef"}
    THEN <<[funcName |-> body[i].name,
            qualifiedName |-> IF class_name # None
                              THEN class_name \o "." \o body[i].name
                              ELSE body[i].name,
            className |-> class_name,
            isAsync |-> body[i].type = "AsyncFunctionDef",
            node |-> i,
            filePath |-> file_path]>>
    ELSE <<>>

\* the loops `for child in node.body` and `for node in parse_tree.body`
ExtractFromNodes(file_path, body, nodes, class_name) ==
    IF nodes = <<>> THEN <<>>
    ELSE extract_from_node(file_path, body, Head(nodes), class_name)
         \o ExtractFromNodes(file_path, body, Tail(nodes), class_name)

\* get_functions with the SyntaxError of ast.parse left to the caller
get_functions_parse_unguarded(file_path, file) ==
    IF file.status = "missing" THEN [raised |-> FALSE, value |-> <<>>, stderr |-> None]
    ELSE IF file.status = "unreadable"
    THEN [raised |-> FALSE, value |-> <<>>, stderr |-> "error"]
    ELSE IF file.status = "syntax_error"
    THEN [raised |-> TRUE, value |-> "SyntaxError", stderr |-> None]
    ELSE [raised |-> FALSE,
          value |-> ExtractFromNodes(file_path, file.body, Children(file.body, 0), None),
          stderr |-> None]

\* get_functions(file_path): what it returns and what it prints to stderr
get_functions(file_path, file) ==
    IF file.status = "missing" THEN [raised |-> FALSE, value |-> <<>>, stderr |-> None]
    ELSE IF file.status = "unreadable"
    THEN [raised |-> FALSE, value |-> <<>>, stderr |-> "error"]
    ELSE IF file.status = "syntax_error"
    THEN [raised |-> FALSE, value |-> <<>>, stderr |-> "Syntax error"]
    ELSE [raised |-> FALSE,
          value |-> ExtractFromNodes(file_path, file.body, Children(file.body, 0), None),
          stderr |-> None]

----------------------------------------------------------------------------
(* SpecExtract: get_functions called on one file *)

\* the statements a file is made of, less their depth
Statements ==
    {[type |-> "FunctionDef", name |-> n, decorated |-> d] :
        n \in {"f", "g"}, d \in BOOLEAN}
    \cup {[type |-> "AsyncFunctionDef", name |-> "g", decorated |-> d] : d \in BOOLEAN}
    \cup {[type |-> "ClassDef", name |-> n, decorated |-> FALSE] : n \in {"A", "B"}}
    \cup {[type |-> "If", name |-> None, decorated |-> FALSE],
          [type |-> "Expr", name |-> None, decorated |-> FALSE]}

\* the statements that have a body
Compound == {"FunctionDef", "AsyncFunctionDef", "ClassDef", "If"}

\* the depths the statement after the statements of b can have
NextDepths(b) ==
    IF b = <<>> THEN {0}
    ELSE 0..(b[Len(b)].depth + (IF b[Len(b)].type \in Compound THEN 1 ELSE 0))

RECURSIVE BodiesOf(_)
\* the parse trees of k statements
BodiesOf(k) ==
    IF k = 0 THEN {<<>>}
    ELSE {t[1] \o <<Node(t[2].type, t[2].name, t[2].decorated, t[3])>> :
             t \in {u \in BodiesOf(k - 1) \X Statements \X (0..(k - 1)) :
                       u[3] \in NextDepths(u[1])}}

\* the files that cannot be opened or parsed
FailingFiles ==
    {[status |-> st, body |-> <<>>] : st \in {"missing", "unreadable", "syntax_error"}}

InitExtract ==
    /\ source_file = "calc.py"
    /\ \/ content \in FailingFiles
       \/ \E k \in 0..MaxStmts : \E b \in BodiesOf(k) :
             content = [status |-> "ok", body |-> b]
    /\ file_exists = (content.status # "missing")
    /\ generate_coverage = TRUE
    /\ custom_values = <<>>
    /\ language = None
    /\ functions = <<>>
    /\ scenarios = <<>>
    /\ test_files = <<>>
    /\ coverage_report = None
    /\ disk = NoDisk
    /\ env = NoEnv
    /\ pc = "idle"
    /\ trace = <<>>
    /\ ret = NoCall
    /\ IdleScripts

\* a call of get_functions(source_file)
CallGetFunctions ==
    /\ pc = "idle"
    /\ ret' = [call |-> "get_functions", result |-> get_functions(source_file, content)]
    /\ pc' = "returned"
    /\ UNCHANGED <<source_file, file_exists, content, script_vars, pipeline_vars, env, trace>>

NextExtract == CallGetFunctions

SpecExtract == InitExtract /\ [][NextExtract]_vars

\* the function definitions of a parse tree
IsDef(node) == node.type \in {"FunctionDef", "AsyncFunctionDef"}

\* C5: get_functions returns an empty list and does not raise when the file
\* does not exist, cannot be read or has a Python syntax error; it returns an
\* empty list for a file that defines no function.
C5_EmptyOnFailure ==
    ret.call = "get_functions" =>
        /\ content.status \in {"missing", "unreadable", "syntax_error"} =>
              /\ ~ret.result.raised
              /\ ret.result.value = <<>>
        /\ (content.status = "ok" /\ \A i \in 1..Len(content.body) : ~IsDef(content.body[i])) =>
              /\ ~ret.result.raised
              /\ ret.result.value = <<>>

\* get_functions has returned from a file with a syntax error
C5_Witness ==
    /\ ret.call = "get_functions"
    /\ content.status = "syntax_error"
    /\ ~ret.result.raised
    /\ ret.result.stderr = "Syntax error"

\* the statement whose body holds body[i]: 0 for the module
Parent(body, i) ==
    LET before == {k \in 1..(i - 1) : body[k].depth < body[i].depth}
    IN  IF before = {} THEN 0 ELSE CHOOSE k \in before : \A m \in before : m <= k

\* the top-level functions and the methods defined in a class body
ListedDefs(body) ==
    SelectSeq([j \in 1..Len(body) |-> j],
              LAMBDA j : /\ IsDef(body[j])
                         /\ \/ Parent(body, j) = 0
                            \/ body[Parent(body, j)].type = "ClassDef")

\* C6: get_functions returns exactly one entry for each top-level function
\* (sync or async, decorated or not) and each method defined in a class body,
\* in source order; a method has className set to its class and qualifiedName
\* 'Class.method', a top-level function has className None and qualifiedName
\* equal to funcName, and isAsync is True exactly for 'async def'.
C6_OneEntryPerFunction ==
    (ret.call = "get_functions" /\ content.status = "ok") =>
        LET body == content.body
            listed == ListedDefs(body)
            found == ret.result.value
        IN  /\ ~ret.result.raised
            /\ Len(found) = Len(listed)
            /\ \A n \in 1..Len(listed) :
                  LET node == body[listed[n]]
                      parent == Parent(body, listed[n])
                  IN  /\ found[n].node = listed[n]
                      /\ found[n].funcName = node.name
                      /\ found[n].isAsync = (node.type = "AsyncFunctionDef")
                      /\ IF parent = 0
                         THEN /\ found[n].className = None
                              /\ found[n].qualifiedName = node.name
                         ELSE /\ found[n].className = body[parent].name
                              /\ found[n].qualifiedName
                                    = body[parent].name \o "." \o node.name

----------------------------------------------------------------------------
(* ai-unit-test-generator/python/extract_functions.py: main().
   content maps the paths of the file system to files, source_file is
   sys.argv[1] (None when the script has no argument) and stdin is
   [valid, files]: whether json.load succeeds and the value of 'files'.     *)

\* the file at a path: a path the file system does not hold is a missing file
FileAt(files, path) == DictGet(files, path, [status |-> "missing", body |-> <<>>])

RECURSIVE ExtractMainLoop(_, _, _)
\* `for file_path in file_paths` from the paths left on: out is
\* [raised, all_functions, stderr] so far
ExtractMainLoop(file_paths, files, out) ==
    IF file_paths = <<>> \/ out.raised THEN out
    ELSE LET result == get_functions(Head(file_paths), FileAt(files, Head(file_paths)))
         IN  IF result.raised
             THEN [out EXCEPT !.raised = TRUE, !.stderr = Append(@, "Traceback")]
             ELSE ExtractMainLoop(Tail(file_paths), files,
                     [raised |-> FALSE,
                      all_functions |-> out.all_functions \o result.value,
                      stderr |-> IF result.stderr = None THEN out.stderr
                                 ELSE Append(out.stderr, result.stderr)])

\* main() of extract_functions.py: what it prints and the status it exits with
extract_main(argv_1, input, files) ==
    IF argv_1 # None
    THEN LET out == ExtractMainLoop(<<argv_1>>, files,
                        [raised |-> FALSE, all_functions |-> <<>>, stderr |-> <<>>])
         IN  [stdout |-> [error |-> None, value |-> out.all_functions],
              stderr |-> out.stderr,
              exit_status |-> IF out.raised THEN 1 ELSE 0]
    ELSE IF ~input.valid
    THEN [stdout |-> [error |-> "Invalid JSON input", value |-> <<>>],
          stderr |-> <<>>, exit_status |-> 1]
    ELSE IF input.files = <<>>
    THEN [stdout |-> [error |-> "No files provided", value |-> <<>>],
          stderr |-> <<>>, exit_status |-> 1]
    ELSE LET out == ExtractMainLoop(input.files, files,
                        [raised |-> FALSE, all_functions |-> <<>>, stderr |-> <<>>])
         IN  [stdout |-> [error |-> None,
                          value |-> IF out.raised THEN <<>> ELSE out.all_functions],
              stderr |-> out.stderr,
              exit_status |-> IF out.raised THEN 1 ELSE 0]

\* extract_functions.py runs from start to exit
RunExtractScript ==
    /\ pc = "extract_functions"
    /\ LET run == extract_main(source_file, stdin, content)
       IN  /\ stdout' = run.stdout
           /\ stderr' = run.stderr
           /\ exit_status' = run.exit_status
    /\ pc' = "functions_printed"
    /\ ret' = [call |-> "extract_functions.main", value |-> source_file]
    /\ UNCHANGED <<source_file, file_exists, content, pipeline_vars, env, trace, stdin,
                   node_attempts, class_stack, visiting>>

----------------------------------------------------------------------------
(* SpecExtractScript: one run of extract_functions.py *)

MaxFiles == 2       \* paths in the 'files' list

\* a.py holds at most one statement, b.py a class with two methods and a
\* function, bad.py cannot be parsed or cannot be read; missing.py is not there
FileSystems ==
    {<<[key |-> "a.py", value |-> [status |-> "ok", body |-> a]],
       [key |-> "b.py",
        value |-> [status |-> "ok",
                   body |-> <<Node("ClassDef", "A", FALSE, 0),
                              Node("FunctionDef", "f", FALSE, 1),
                              Node("AsyncFunctionDef", "g", TRUE, 1),
                              Node("FunctionDef", "f", FALSE, 0)>>]],
       [key |-> "bad.py", value |-> [status |-> st, body |-> <<>>]]>> :
        a \in BodiesOf(0) \cup BodiesOf(1), st \in {"syntax_error", "unreadable"}}

ScriptPaths == {"a.py", "b.py", "bad.py", "missing.py"}

ExtractScriptInputs ==
    {[valid |-> FALSE, files |-> <<>>]}
    \cup {[valid |-> TRUE, files |-> l] : l \in SeqsUpTo(ScriptPaths, MaxFiles)}

InitExtractScript ==
    /\ content \in FileSystems
    /\ \/ source_file = None /\ stdin \in ExtractScriptInputs
       \/ source_file \in ScriptPaths /\ stdin = None
    /\ file_exists = TRUE
    /\ generate_coverage = TRUE
    /\ custom_values = <<>>
    /\ language = None
    /\ functions = <<>>
    /\ scenarios = <<>>
    /\ test_files = <<>>
    /\ coverage_report = None
    /\ disk = NoDisk
    /\ env = NoEnv
    /\ pc = "extract_functions"
    /\ trace = <<>>
    /\ ret = NoCall
    /\ stdout = None
    /\ stderr = <<>>
    /\ exit_status = None
    /\ node_attempts = <<>>
    /\ class_stack = <<>>
    /\ visiting = <<>>

NextExtractScript == RunExtractScript

SpecExtractScript == InitExtractScript /\ [][NextExtractScript]_vars

\* the entries get_functions makes of the file at a path
FunctionsOfFile(path) ==
    LET file == FileAt(content, path)
    IN  IF file.status = "ok"
        THEN ExtractFromNodes(path, file.body, Children(file.body, 0), None)
        ELSE <<>>

RECURSIVE EntriesBefore(_, _)
\* the number of entries of the files listed before the k-th
EntriesBefore(file_paths, k) ==
    IF k <= 1 THEN 0
    ELSE EntriesBefore(file_paths, k - 1) + Len(FunctionsOfFile(file_paths[k - 1]))

\* C29: in stdin mode the output is the concatenation of the functions of
\* each listed file, in the order of the list: the entries of the k-th file
\* follow those of the files before it, a file that is missing or has a syntax
\* error adds none and the files after it are still processed; input that is
\* not valid JSON or has an empty 'files' list yields an error object and exit
\* status 1.
C29_ConcatenationInListOrder ==
    (pc = "functions_printed" /\ source_file = None) =>
        IF ~stdin.valid \/ stdin.files = <<>>
        THEN /\ stdout.error # None
             /\ exit_status = 1
        ELSE LET file_paths == stdin.files
             IN  /\ exit_status = 0
                 /\ stdout.error = None
                 /\ Len(stdout.value) = EntriesBefore(file_paths, Len(file_paths) + 1)
                 /\ \A k \in 1..Len(file_paths) :
                       LET found == FunctionsOfFile(file_paths[k])
                       IN  /\ FileAt(content, file_paths[k]).status
                                 \in {"missing", "syntax_error"} => found = <<>>
                           /\ \A j \in 1..Len(found) :
                                 stdout.value[EntriesBefore(file_paths, k) + j] = found[j]

\* the script was given a file with a syntax error and then b.py: it printed
\* the three functions of b.py
C29_Witness ==
    /\ pc = "functions_printed"
    /\ source_file = None
    /\ stdin.valid
    /\ stdin.files = <<"bad.py", "b.py">>
    /\ FileAt(content, "bad.py").status = "syntax_error"
    /\ exit_status = 0
    /\ Len(stdout.value) = 3
    /\ stdout.value[1].qualifiedName = "A.f"
    /\ stdout.value[3].qualifiedName = "f"

\* the script was given input that is not JSON and exited with status 1
C29_WitnessInvalid ==
    /\ pc = "functions_printed"
    /\ source_file = None
    /\ ~stdin.valid
    /\ exit_status = 1

----------------------------------------------------------------------------
(* ai-unit-testing-multiLang/extract_functions.py: FunctionExtractor.
   content is the parsed file; visiting holds a frame [node, left] for every
   visit call that is running, outermost first: the node it was called on
   (0 for the module) and the children generic_visit has still to visit.
   functions is extractor.functions; the func_source of an entry is kept as
   the node it is the source segment of.                                    *)

\* the frame of a visit call that has just been made on body[i]
Frame(body, i) == [node |-> i, left |-> Children(body, i)]

\* the running visit call and the node it is on
TopFrame == visiting[Len(visiting)]

\* the frames once the running generic_visit has called visit on its next
\* child
Descend(body) ==
    Append([visiting EXCEPT ![Len(visiting)].left = Tail(@)],
           Frame(body, Head(TopFrame.left)))

\* _add_function(node) for node = body[i]: the entry it appends
_add_function(body, i, stack) ==
    LET class_name == IF stack # <<>> THEN stack[Len(stack)] ELSE None
        qualified_name == IF class_name # None
                          THEN class_name \o "." \o body[i].name
                          ELSE body[i].name
    IN  [func_name |-> body[i].name,
         qualified_name |-> qualified_name,
         class_name |-> class_name,
         is_async |-> body[i].type = "AsyncFunctionDef",
         func_source |-> i]

\* visit_ClassDef is called on the next child: it pushes the class name and
\* starts generic_visit
visit_ClassDef ==
    /\ pc = "visit"
    /\ TopFrame.left # <<>>
    /\ LET body == content.body
           node == body[Head(TopFrame.left)]
       IN  /\ node.type = "ClassDef"
           /\ class_stack' = Append(class_stack, node.name)
           /\ visiting' = Descend(body)
    /\ UNCHANGED <<source_file, file_exists, content, pipeline_vars, env, pc, trace, ret,
                   stdin, stdout, stderr, exit_status, node_attempts>>

\* visit_FunctionDef or visit_AsyncFunctionDef is called on the next child: it
\* adds the function and starts generic_visit
visit_FunctionDef ==
    /\ pc = "visit"
    /\ TopFrame.left # <<>>
    /\ LET body == content.body
           i == Head(TopFrame.left)
       IN  /\ body[i].type \in {"FunctionDef", "AsyncFunctionDef"}
           /\ functions' = Append(functions, _add_function(body, i, class_stack))
           /\ visiting' = Descend(body)
    /\ UNCHANGED <<source_file, file_exists, content, generate_coverage, custom_values,
                   language, scenarios, test_files, coverage_report, disk, env, pc, trace,
                   ret, stdin, stdout, stderr, exit_status, node_attempts, class_stack>>

\* the next child is of another type: visit falls back to generic_visit
generic_visit ==
    /\ pc = "visit"
    /\ TopFrame.left # <<>>
    /\ LET body == content.body
           node == body[Head(TopFrame.left)]
       IN  /\ node.type \notin {"ClassDef", "FunctionDef", "AsyncFunctionDef"}
           /\ visiting' = Descend(body)
    /\ UNCHANGED <<source_file, file_exists, content, pipeline_vars, env, pc, trace, ret,
                   stdin, stdout, stderr, exit_status, node_attempts, class_stack>>

\* a visit_ClassDef that returns without class_stack.pop()
visit_ClassDef_returns_without_pop ==
    /\ pc = "visit"
    /\ TopFrame.left = <<>>
    /\ TopFrame.node # 0
    /\ content.body[TopFrame.node].type = "ClassDef"
    /\ visiting' = SubSeq(visiting, 1, Len(visiting) - 1)
    /\ UNCHANGED <<source_file, file_exists, content, pipeline_vars, env, pc, trace, ret,
                   stdin, stdout, stderr, exit_status, node_attempts, class_stack>>

\* the generic_visit of a class has visited every child: visit_ClassDef pops
\* the class name and returns
visit_ClassDef_returns ==
    /\ pc = "visit"
    /\ TopFrame.left = <<>>
    /\ TopFrame.node # 0
    /\ content.body[TopFrame.node].type = "ClassDef"
    /\ class_stack' = SubSeq(class_stack, 1, Len(class_stack) - 1)
    /\ visiting' = SubSeq(visiting, 1, Len(visiting) - 1)
    /\ UNCHANGED <<source_file, file_exists, content, pipeline_vars, env, pc, trace, ret,
                   stdin, stdout, stderr, exit_status, node_attempts>>

\* the generic_visit of a node that is not a class has visited every child:
\* the visit call returns
visit_returns ==
    /\ pc = "visit"
    /\ TopFrame.left = <<>>
    /\ TopFrame.node # 0
    /\ content.body[TopFrame.node].type # "ClassDef"
    /\ visiting' = SubSeq(visiting, 1, Len(visiting) - 1)
    /\ UNCHANGED <<source_file, file_exists, content, pipeline_vars, env, pc, trace, ret,
                   stdin, stdout, stderr, exit_status, node_attempts, class_stack>>

\* extractor.visit(tree) returns and get_functions_from_file returns
\* extractor.functions
get_functions_from_file ==
    /\ pc = "visit"
    /\ TopFrame.left = <<>>
    /\ TopFrame.node = 0
    /\ visiting' = <<>>
    /\ pc' = "done"
    /\ ret' = [call |-> "get_functions_from_file", value |-> Ok(functions)]
    /\ UNCHANGED <<source_file, file_exists, content, pipeline_vars, env, trace,
                   stdin, stdout, stderr, exit_status, node_attempts, class_stack>>

----------------------------------------------------------------------------
(* SpecVisit: FunctionExtractor.visit on the parse tree of one file *)

MaxNodes == 3       \* statements of the parse tree that is visited

\* the statements a visited tree is made of
VisitedStatements ==
    {[type |-> "FunctionDef", name |-> "f"],
     [type |-> "AsyncFunctionDef", name |-> "g"],
     [type |-> "ClassDef", name |-> "A"],
     [type |-> "ClassDef", name |-> "B"],
     [type |-> "If", name |-> None]}

RECURSIVE TreesOf(_)
\* the parse trees of k statements
TreesOf(k) ==
    IF k = 0 THEN {<<>>}
    ELSE {t[1] \o <<Node(t[2].type, t[2].name, FALSE, t[3])>> :
             t \in {u \in TreesOf(k - 1) \X VisitedStatements \X (0..(k - 1)) :
                       u[3] \in NextDepths(u[1])}}

\* get_functions_from_file has parsed the file, made the extractor and called
\* extractor.visit(tree)
InitVisit ==
    /\ source_file = "calc.py"
    /\ file_exists = TRUE
    /\ \E k \in 0..MaxNodes : \E b \in TreesOf(k) : content = [status |-> "ok", body |-> b]
    /\ generate_coverage = TRUE
    /\ custom_values = <<>>
    /\ language = None
    /\ functions = <<>>
    /\ scenarios = <<>>
    /\ test_files = <<>>
    /\ coverage_report = None
    /\ disk = NoDisk
    /\ env = NoEnv
    /\ pc = "visit"
    /\ trace = <<>>
    /\ ret = NoCall
    /\ stdin = None
    /\ stdout = None
    /\ stderr = <<>>
    /\ exit_status = None
    /\ node_attempts = <<>>
    /\ class_stack = <<>>
    /\ visiting = <<Frame(content.body, 0)>>

NextVisit ==
    \/ visit_ClassDef
    \/ visit_FunctionDef
    \/ generic_visit
    \/ visit_ClassDef_returns
    \/ visit_returns
    \/ get_functions_from_file

SpecVisit == InitVisit /\ [][NextVisit]_vars

RECURSIVE EnclosingClasses(_, _)
\* the names of the ClassDef nodes that enclose body[i], outermost first
EnclosingClasses(body, i) ==
    IF i = 0 THEN <<>>
    ELSE LET p == Parent(body, i)
         IN  IF p = 0 THEN <<>>
             ELSE EnclosingClasses(body, p)
                  \o (IF body[p].type = "ClassDef" THEN <<body[p].name>> ELSE <<>>)

\* C30: during FunctionExtractor.visit class_stack is the chain of ClassDef
\* nodes, outermost first, that enclose what is being visited: the children of
\* the node whose generic_visit is running (so the chain ends with that node
\* when it is a class, between its push and its pop); the stack is empty when
\* the visit of the module ends, and the class_name recorded for a function
\* is its innermost enclosing class, or None when no class encloses it.
C30_ClassStackIsEnclosingChain ==
    LET body == content.body
    IN  /\ pc = "visit" =>
              LET n == TopFrame.node
                  own == IF n # 0 /\ body[n].type = "ClassDef"
                         THEN <<body[n].name>> ELSE <<>>
              IN  class_stack = EnclosingClasses(body, n) \o own
        /\ pc = "done" => class_stack = <<>>
        /\ \A k \in 1..Len(functions) :
              LET chain == EnclosingClasses(body, functions[k].func_source)
              IN  functions[k].class_name
                     = IF chain = <<>> THEN None ELSE chain[Len(chain)]

\* the visit has ended on a file with class A, class B nested in A and a
\* function in B: the function was recorded with class_name B, and the stack
\* is empty again
C30_Witness ==
    /\ pc = "done"
    /\ Len(content.body) = 3
    /\ content.body[1].type = "ClassDef"
    /\ content.body[2].type = "ClassDef"
    /\ content.body[2].depth = 1
    /\ content.body[3].type = "FunctionDef"
    /\ content.body[3].depth = 2
    /\ Len(functions) = 1
    /\ functions[1].class_name = content.body[2].name
    /\ class_stack = <<>>

----------------------------------------------------------------------------
(* ai-unit-test-generator/python/generate_scenarios.py and
   generate_unit_tests.py: the creation of the chat model.
   env is the process environment after load_dotenv() and what is installed:
   [script, AI_PROVIDER, OPENAI_API_KEY, OPENAI_MODEL, ChatOpenAI, ollama]. *)

\* os.getenv(name, default) on env: an unset variable is None
getenv(e, name, default) == IF e[name] = None THEN default ELSE e[name]

\* the max_tokens each script asks its model for
max_tokens(script) == IF script = "generate_scenarios" THEN "512" ELSE "2048"

\* _create_llm(provider)
_create_llm(e, provider) ==
    LET api_key == getenv(e, "OPENAI_API_KEY", None)
    IN  IF provider = "openai"
        THEN IF ~e.ChatOpenAI THEN Raise("ImportError")
             ELSE IF api_key = None \/ api_key = "" THEN Raise("ValueError")
             ELSE Ok([class |-> "ChatOpenAI",
                      model |-> getenv(e, "OPENAI_MODEL", "gpt-4o"),
                      max_tokens |-> max_tokens(e.script)])
        ELSE IF provider = "ollama"
        THEN IF e.ollama
             THEN Ok([class |-> "init_chat_model", model |-> "ollama:llama3.2",
                      max_tokens |-> max_tokens(e.script)])
             ELSE Raise("ImportError")
        ELSE Raise("ValueError")

\* the exceptions that `except ValueError` catches
CaughtByExceptValueError(result) == result.raised /\ result.value = "ValueError"

\* create_scenario_generator / create_test_generator up to the first
\* _create_llm(provider): the model is made, the error is left to the caller,
\* or the handler goes on to the fallback
CreateLLM ==
    /\ pc = "create"
    /\ LET provider == getenv(env, "AI_PROVIDER", "openai")
           result == _create_llm(env, provider)
       IN  /\ trace' = Append(trace, [call |-> "_create_llm", provider |-> provider,
                                      result |-> result])
           /\ IF CaughtByExceptValueError(result) /\ provider = "openai"
              THEN /\ pc' = "fallback"
                   /\ ret' = ret
              ELSE /\ pc' = "done"
                   /\ ret' = [call |-> "create_" \o env.script, value |-> result]
    /\ UNCHANGED <<source_file, file_exists, content, script_vars, pipeline_vars, env>>

\* the except branch for provider 'openai': llm = _create_llm('ollama')
FallBackToOllama ==
    /\ pc = "fallback"
    /\ LET result == _create_llm(env, "ollama")
       IN  /\ trace' = Append(trace, [call |-> "_create_llm", provider |-> "ollama",
                                      result |-> result])
           /\ ret' = [call |-> "create_" \o env.script, value |-> result]
    /\ pc' = "done"
    /\ UNCHANGED <<source_file, file_exists, content, script_vars, pipeline_vars, env>>

----------------------------------------------------------------------------
(* SpecLLM: one of the two scripts creates its chat model *)

Environments ==
    [script : {"generate_scenarios", "generate_unit_tests"},
     AI_PROVIDER : {None, "openai", "ollama", "OpenAI", "anthropic", ""},
     OPENAI_API_KEY : {None, "", "sk-test"},
     OPENAI_MODEL : {None, "gpt-4o-mini"},
     ChatOpenAI : BOOLEAN,
     ollama : BOOLEAN]

InitLLM ==
    /\ env \in Environments
    /\ source_file = "calc.py"
    /\ file_exists = TRUE
    /\ IdlePipeline
    /\ pc = "create"
    /\ trace = <<>>
    /\ ret = NoCall
    /\ IdleScripts

NextLLM ==
    \/ CreateLLM
    \/ FallBackToOllama

SpecLLM == InitLLM /\ [][NextLLM]_vars

\* the OpenAI model cannot be created in env
OpenAIUnavailable(e) ==
    \/ e.OPENAI_API_KEY \in {None, ""}
    \/ ~e.ChatOpenAI

\* C8: with AI_PROVIDER unset or 'openai', the creation falls back to the
\* Ollama model whenever the OpenAI model cannot be created, both when
\* OPENAI_API_KEY is not set and when langchain-openai is not installed; with
\* any other provider value the creation error propagates and no fallback is
\* tried.
C8_FallbackToOllama ==
    pc = "done" =>
        IF env.AI_PROVIDER \in {None, "openai"}
        THEN OpenAIUnavailable(env) =>
                /\ Len(trace) = 2
                /\ trace[2].provider = "ollama"
                /\ ret.value = _create_llm(env, "ollama")
        ELSE /\ Len(trace) = 1
             /\ ret.value = trace[1].result

----------------------------------------------------------------------------
(* ai-unit-test-generator/python/generate_scenarios.py and
   generate_unit_tests.py: the graph each script compiles and its nodes.
   Every node calls llm.invoke once per attempt; an attempt either returns
   the content of the answer or raises. node_attempts maps each node of the
   running graph to what its attempts made so far did, in order.            *)

\* @retry(stop=stop_after_attempt(3), ...)
stop_after_attempt == 3

\* graph.add_node: the nodes of the script's graph, each on an edge from START
GraphNodes(script) ==
    IF script = "generate_scenarios" THEN <<"positive", "negative">> ELSE <<"gen_tests">>

\* the key of the graph state that the node's return value sets
NodeKey(node) == IF node = "gen_tests" THEN "tests" ELSE node

\* what llm.invoke(...).content can be
AnswerContents == {"", "text"}

\* what one attempt of a node can do
Returned(c) == [kind |-> "ok", content |-> c]
Failed == [kind |-> "error", content |-> None]
Outcomes == {Returned(c) : c \in AnswerContents} \cup {Failed}

\* a retrying call that gives up one attempt later
RetryStopsAfterFour(attempts) ==
    /\ attempts # <<>>
    /\ \/ attempts[Len(attempts)].kind = "ok"
       \/ Len(attempts) >= stop_after_attempt + 1

\* the retrying call of a node has ended: its last attempt returned, or it
\* raised and stop_after_attempt(3) says stop
RetryStops(attempts) ==
    /\ attempts # <<>>
    /\ \/ attempts[Len(attempts)].kind = "ok"
       \/ Len(attempts) >= stop_after_attempt

\* what the decorated node function gives the graph once it has ended: the
\* dict of the attempt that returned, or RetryError (reraise is not set)
RetryResult(node, attempts) ==
    IF attempts[Len(attempts)].kind = "ok"
    THEN Ok(<<[key |-> NodeKey(node), value |-> attempts[Len(attempts)].content]>>)
    ELSE Raise("RetryError")

RECURSIVE MergeUpdates(_, _, _)
\* the state of the graph after the updates of the nodes left are merged in
MergeUpdates(state, left, attempts) ==
    IF left = <<>> THEN state
    ELSE LET update == RetryResult(Head(left), attempts[Head(left)]).value[1]
         IN  MergeUpdates(DictSet(state, update.key, update.value), Tail(left), attempts)

\* generator.invoke({'input': code}) once every node has ended: the final
\* state, or the error of a node that gave up
invoke(script, code, attempts) ==
    IF \E n \in Range(GraphNodes(script)) : RetryResult(n, attempts[n]).raised
    THEN Raise("RetryError")
    ELSE Ok(MergeUpdates(<<[key |-> "input", value |-> code]>>, GraphNodes(script), attempts))

\* START -> node: the graph is invoked and no node has run yet
NotAttempted(script) == [n \in Range(GraphNodes(script)) |-> <<>>]

\* one attempt of a node that has not ended: tenacity calls the function again
Attempt(node) ==
    /\ pc \in {"invoke", "done"}
    /\ node \in DOMAIN node_attempts
    /\ ~RetryStops(node_attempts[node])
    /\ \E outcome \in Outcomes :
          node_attempts' = [node_attempts EXCEPT ![node] = Append(@, outcome)]
    /\ UNCHANGED <<source_file, file_exists, content, pipeline_vars, env, pc, trace, ret,
                   stdin, stdout, stderr, exit_status, class_stack, visiting>>

\* every node has ended and returned: invoke returns the final state
GraphReturns ==
    /\ pc = "invoke"
    /\ \A n \in DOMAIN node_attempts :
          /\ RetryStops(node_attempts[n])
          /\ ~RetryResult(n, node_attempts[n]).raised
    /\ ret' = [call |-> "invoke", value |-> invoke(env.script, stdin, node_attempts)]
    /\ pc' = "done"
    /\ UNCHANGED <<source_file, file_exists, content, pipeline_vars, env, trace, script_vars>>

\* a node has given up: its error leaves invoke, whether or not the node
\* running beside it has ended
GraphRaises ==
    /\ pc = "invoke"
    /\ \E n \in DOMAIN node_attempts :
          /\ RetryStops(node_attempts[n])
          /\ RetryResult(n, node_attempts[n]).raised
    /\ ret' = [call |-> "invoke", value |-> Raise("RetryError")]
    /\ pc' = "done"
    /\ UNCHANGED <<source_file, file_exists, content, pipeline_vars, env, trace, script_vars>>

----------------------------------------------------------------------------
(* SpecGraph: one run of the compiled graph of one of the two scripts *)

\* the environments in which the chat model was created
GraphEnvironments ==
    {e \in Environments :
        /\ e.AI_PROVIDER = "ollama" /\ e.ollama /\ e.ChatOpenAI
        /\ e.OPENAI_API_KEY = None /\ e.OPENAI_MODEL = None}

InitGraph ==
    /\ env \in GraphEnvironments
    /\ source_file = "calc.py"
    /\ file_exists = TRUE
    /\ IdlePipeline
    /\ pc = "invoke"
    /\ trace = <<>>
    /\ ret = NoCall
    /\ stdin = "def f(): pass"
    /\ stdout = None
    /\ stderr = <<>>
    /\ exit_status = None
    /\ node_attempts = NotAttempted(env.script)
    /\ class_stack = <<>>
    /\ visiting = <<>>

NextGraph ==
    \/ \E node \in {"positive", "negative", "gen_tests"} : Attempt(node)
    \/ GraphReturns
    \/ GraphRaises

SpecGraph == InitGraph /\ [][NextGraph]_vars

\* every attempt of the node so far raised
AllFailed(attempts) == \A i \in 1..Len(attempts) : attempts[i].kind = "error"

\* C26: each LLM node (positive scenario, negative scenario, unit-test
\* generation) is attempted at most 3 times per graph run: no attempt follows
\* an attempt that returned, the result of that attempt is what the run
\* returns for the node, and once a node has failed three times in a row the
\* run raises instead of attempting it again.
C26_AtMostThreeAttempts ==
    \A n \in DOMAIN node_attempts :
        LET attempts == node_attempts[n]
        IN  /\ Len(attempts) <= 3
            /\ \A i \in 1..(Len(attempts) - 1) : attempts[i].kind = "error"
            /\ (pc = "done" /\ ~ret.value.raised) =>
                  /\ attempts # <<>>
                  /\ attempts[Len(attempts)].kind = "ok"
                  /\ DictGet(ret.value.value, NodeKey(n), None)
                        = attempts[Len(attempts)].content
            /\ (pc = "done" /\ Len(attempts) = 3 /\ AllFailed(attempts)) =>
                  ret.value.raised

\* the positive node failed three times, the negative node returned at its
\* second attempt, and the run has raised
C26_Witness ==
    /\ pc = "done"
    /\ env.script = "generate_scenarios"
    /\ ret.value.raised
    /\ Len(node_attempts["positive"]) = 3
    /\ AllFailed(node_attempts["positive"])
    /\ Len(node_attempts["negative"]) = 2
    /\ node_attempts["negative"][2].kind = "ok"

----------------------------------------------------------------------------
(* ai-unit-test-generator/python/generate_scenarios.py and
   generate_unit_tests.py: main(), the JSON mode of the two scripts.
   stdin is [valid, functions] or [valid, scenarios]: whether json.load
   succeeds and the value of the key the script reads; stdout is
   [error, value]: the error object, or the dict or list that is printed.
   An absent key of a JSON object is None.                                  *)

\* create_scenario_generator() / create_test_generator() up to graph.compile():
\* the chat model the graph is built on, or the error that leaves the call
create_generator(e) ==
    LET provider == getenv(e, "AI_PROVIDER", "openai")
        result == _create_llm(e, provider)
    IN  IF CaughtByExceptValueError(result) /\ provider = "openai"
        THEN _create_llm(e, "ollama")
        ELSE result

\* gen_scenarios(code), the nodes of the run doing what `attempts` says
gen_scenarios(e, code, attempts) ==
    IF create_generator(e).raised THEN create_generator(e)
    ELSE invoke("generate_scenarios", code, attempts)

\* gen_tests(scenarios), the node of the run doing what `attempts` says
gen_tests(e, combined_scenarios, attempts) ==
    IF create_generator(e).raised THEN create_generator(e)
    ELSE invoke("generate_unit_tests", combined_scenarios, attempts)

\* the attempts a node can have made when its retrying call has ended
FinishedAttempts ==
    {a \in SeqsUpTo(Outcomes, stop_after_attempt) :
        /\ RetryStops(a)
        /\ \A i \in 1..(Len(a) - 1) : ~RetryStops(SubSeq(a, 1, i))}

\* what the nodes of one run of the script's graph can have done
FinishedRuns(script) == [Range(GraphNodes(script)) -> FinishedAttempts]

\* what gen_scenarios(code) can return or raise in environment e
GenScenariosResults(e, code) ==
    {gen_scenarios(e, code, a) : a \in FinishedRuns("generate_scenarios")}

\* what gen_tests(combined_scenarios) can return or raise in environment e
GenTestsResults(e, combined_scenarios) ==
    {gen_tests(e, combined_scenarios, a) : a \in FinishedRuns("generate_unit_tests")}

\* func.get("qualifiedName", func.get("funcName", "unknown"))
QualifiedNameOf(func) ==
    IF func.qualifiedName # None THEN func.qualifiedName
    ELSE IF func.funcName # None THEN func.funcName
    ELSE "unknown"

\* d.get(key, "") for a key that None stands for when absent
GetOrEmpty(v) == IF v = None THEN "" ELSE v

\* the progress message a script prints to stderr
Progress(name) == [type |-> "progress", function |-> name, status |-> "complete"]

\* an entry of the dict the scenario script prints
ScenarioEntry(positive, negative, error, func_source, file_path) ==
    [positive |-> positive, negative |-> negative, error |-> error,
     funcSource |-> func_source, filePath |-> file_path]

RECURSIVE ScenarioMainLoop(_, _, _, _, _)
\* `for func in functions` of the scenario script from functions[i] on;
\* results[i] is what gen_scenarios does for functions[i], out is
\* [scenarios, stderr, calls] so far
ScenarioMainLoop(e, funcs, results, i, out) ==
    IF i > Len(funcs) THEN out
    ELSE LET func == funcs[i]
             qualified_name == QualifiedNameOf(func)
             func_source == GetOrEmpty(func.funcSource)
             result == results[i]
             call == [function |-> i, result |-> result]
         IN  IF func_source = "" THEN ScenarioMainLoop(e, funcs, results, i + 1, out)
             ELSE IF ~result.raised
             THEN ScenarioMainLoop(e, funcs, results, i + 1,
                     [scenarios |-> DictSet(out.scenarios, qualified_name,
                                       ScenarioEntry(DictGet(result.value, "positive", ""),
                                                     DictGet(result.value, "negative", ""),
                                                     None, func_source,
                                                     GetOrEmpty(func.filePath))),
                      stderr |-> Append(out.stderr, Progress(qualified_name)),
                      calls |-> Append(out.calls, call)])
             ELSE ScenarioMainLoop(e, funcs, results, i + 1,
                     [scenarios |-> DictSet(out.scenarios, qualified_name,
                                       ScenarioEntry("", "", result.value, func_source,
                                                     GetOrEmpty(func.filePath))),
                      stderr |-> out.stderr,
                      calls |-> Append(out.calls, call)])

\* main() of generate_scenarios.py: what it prints and the status it exits with
scenarios_main(e, input, results) ==
    IF ~input.valid
    THEN [stdout |-> [error |-> "Invalid JSON input", value |-> <<>>],
          stderr |-> <<>>, calls |-> <<>>, exit_status |-> 1]
    ELSE IF input.functions = <<>>
    THEN [stdout |-> [error |-> "No functions provided", value |-> <<>>],
          stderr |-> <<>>, calls |-> <<>>, exit_status |-> 1]
    ELSE LET out == ScenarioMainLoop(e, input.functions, results, 1,
                                     [scenarios |-> <<>>, stderr |-> <<>>, calls |-> <<>>])
         IN  [stdout |-> [error |-> None, value |-> out.scenarios],
              stderr |-> out.stderr, calls |-> out.calls, exit_status |-> 0]

\* the f-string combined_scenarios of the test script
CombinedScenarios(func_source, positive, negative) ==
    "Function Source: " \o func_source \o " Positive Scenarios: " \o positive
        \o " Negative Scenarios: " \o negative

\* an entry of the list the test script prints
TestEntry(func_name, test_content, error, file_path) ==
    [functionName |-> func_name, testContent |-> test_content, error |-> error,
     filePath |-> file_path]

RECURSIVE TestMainLoop(_, _, _, _, _)
\* `for func_name, scenario_data in scenarios.items()` of the test script
\* from the i-th item on; results[i] is what gen_tests does for it, out is
\* [tests, stderr, calls] so far
TestMainLoop(e, scens, results, i, out) ==
    IF i > Len(scens) THEN out
    ELSE LET func_name == scens[i].key
             scenario_data == scens[i].value
             positive == GetOrEmpty(scenario_data.positive)
             negative == GetOrEmpty(scenario_data.negative)
             file_path == GetOrEmpty(scenario_data.filePath)
             result == results[i]
             call == [function |-> i, result |-> result]
         IN  IF positive = "" /\ negative = ""
             THEN TestMainLoop(e, scens, results, i + 1, out)
             ELSE IF ~result.raised
             THEN TestMainLoop(e, scens, results, i + 1,
                     [tests |-> Append(out.tests,
                                       TestEntry(func_name, DictGet(result.value, "tests", ""),
                                                 None, file_path)),
                      stderr |-> Append(out.stderr, Progress(func_name)),
                      calls |-> Append(out.calls, call)])
             ELSE TestMainLoop(e, scens, results, i + 1,
                     [tests |-> Append(out.tests,
                                       TestEntry(func_name, "", result.value, file_path)),
                      stderr |-> out.stderr,
                      calls |-> Append(out.calls, call)])

\* main() of generate_unit_tests.py: what it prints and the status it exits with
tests_main(e, input, results) ==
    IF ~input.valid
    THEN [stdout |-> [error |-> "Invalid JSON input", value |-> <<>>],
          stderr |-> <<>>, calls |-> <<>>, exit_status |-> 1]
    ELSE IF input.scenarios = <<>>
    THEN [stdout |-> [error |-> "No scenarios provided", value |-> <<>>],
          stderr |-> <<>>, calls |-> <<>>, exit_status |-> 1]
    ELSE LET out == TestMainLoop(e, input.scenarios, results, 1,
                                 [tests |-> <<>>, stderr |-> <<>>, calls |-> <<>>])
         IN  [stdout |-> [error |-> None, value |-> out.tests],
              stderr |-> out.stderr, calls |-> out.calls, exit_status |-> 0]

RECURSIVE ScenarioResultLists(_, _)
\* what the calls of gen_scenarios can do, one for each function of the input
ScenarioResultLists(e, funcs) ==
    IF funcs = <<>> THEN {<<>>}
    ELSE {<<r>> \o rest :
             r \in GenScenariosResults(e, GetOrEmpty(Head(funcs).funcSource)),
             rest \in ScenarioResultLists(e, Tail(funcs))}

RECURSIVE TestResultLists(_, _)
\* what the calls of gen_tests can do, one for each item of the input
TestResultLists(e, scens) ==
    IF scens = <<>> THEN {<<>>}
    ELSE {<<r>> \o rest :
             r \in GenTestsResults(e,
                       CombinedScenarios(GetOrEmpty(Head(scens).value.funcSource),
                                         GetOrEmpty(Head(scens).value.positive),
                                         GetOrEmpty(Head(scens).value.negative))),
             rest \in TestResultLists(e, Tail(scens))}

\* generate_scenarios.py runs in JSON mode on stdin, from start to exit
RunScenarioScript ==
    /\ pc = "generate_scenarios"
    /\ LET funcs == IF stdin.valid THEN stdin.functions ELSE <<>>
       IN  \E results \in ScenarioResultLists(env, funcs) :
              /\ LET run == scenarios_main(env, stdin, results)
                 IN  /\ stdout' = run.stdout
                     /\ stderr' = run.stderr
                     /\ exit_status' = run.exit_status
                     /\ trace' = run.calls
    /\ pc' = "scenarios_printed"
    /\ ret' = [call |-> "generate_scenarios.main", value |-> stdin]
    /\ UNCHANGED <<source_file, file_exists, content, pipeline_vars, env, stdin,
                   node_attempts, class_stack, visiting>>

\* the object the scenario script printed is given to generate_unit_tests.py
\* under the key 'scenarios', and that script runs from start to exit
RunTestScript ==
    /\ pc = "scenarios_printed"
    /\ exit_status = 0
    /\ LET e == [env EXCEPT !.script = "generate_unit_tests"]
           input == [valid |-> TRUE, scenarios |-> stdout.value]
       IN  \E results \in TestResultLists(e, input.scenarios) :
              /\ LET run == tests_main(e, input, results)
                 IN  /\ stdout' = run.stdout
                     /\ stderr' = run.stderr
                     /\ exit_status' = run.exit_status
                     /\ trace' = run.calls
              /\ env' = e
              /\ stdin' = input
    /\ pc' = "tests_printed"
    /\ ret' = [call |-> "generate_unit_tests.main", value |-> stdin]
    /\ UNCHANGED <<source_file, file_exists, content, pipeline_vars,
                   node_attempts, class_stack, visiting>>

----------------------------------------------------------------------------
(* SpecScripts: the scenario script runs in JSON mode, and the test script
   runs on what it printed *)

MaxInputs == 2      \* functions in the JSON input of the scenario script

\* an element of the 'functions' list
InputFunction(qualifiedName, funcName, funcSource, filePath) ==
    [qualifiedName |-> qualifiedName, funcName |-> funcName,
     funcSource |-> funcSource, filePath |-> filePath]

\* f of a.py, f of b.py, a function without qualifiedName and one without source
InputFunctions ==
    {InputFunction("f", "f", "def f(x)", "a.py"),
     InputFunction("f", "f", "def f(y)", "b.py"),
     InputFunction(None, "g", "def g()", "a.py"),
     InputFunction("h", "h", "", "a.py")}

ScenarioScriptInputs ==
    {[valid |-> FALSE, functions |-> <<>>]}
    \cup {[valid |-> TRUE, functions |-> l] : l \in SeqsUpTo(InputFunctions, MaxInputs)}

\* an environment in which the chat model is created and two in which
\* it is not
ScriptEnvironments ==
    {e \in Environments :
        /\ e.script = "generate_scenarios"
        /\ e.AI_PROVIDER \in {"ollama", "anthropic"}
        /\ e.ChatOpenAI /\ e.OPENAI_API_KEY = None /\ e.OPENAI_MODEL = None
        /\ e.AI_PROVIDER = "anthropic" => e.ollama}

InitScripts ==
    /\ env \in ScriptEnvironments
    /\ stdin \in ScenarioScriptInputs
    /\ source_file = "calc.py"
    /\ file_exists = TRUE
    /\ IdlePipeline
    /\ pc = "generate_scenarios"
    /\ trace = <<>>
    /\ ret = NoCall
    /\ stdout = None
    /\ stderr = <<>>
    /\ exit_status = None
    /\ node_attempts = <<>>
    /\ class_stack = <<>>
    /\ visiting = <<>>

NextScripts ==
    \/ RunScenarioScript
    \/ RunTestScript

SpecScripts == InitScripts /\ [][NextScripts]_vars

\* the calls of gen_scenarios that returned
Succeeded(calls) == SelectSeq(calls, LAMBDA c : ~c.result.raised)

\* C27: in the scenario script's JSON mode gen_scenarios is called for every
\* input function with a non-empty funcSource, whatever happened to the
\* functions before it; the output has an entry under the function's
\* qualifiedName that carries the text generated for it when the call
\* succeeded and empty positive and negative plus an error when it failed;
\* the 'complete' messages are those of the functions that succeeded.
C27_FailuresIsolatedPerFunction ==
    (pc = "scenarios_printed" /\ exit_status = 0) =>
        LET funcs == stdin.functions
        IN  /\ {trace[k].function : k \in 1..Len(trace)}
                  = {i \in 1..Len(funcs) : GetOrEmpty(funcs[i].funcSource) # ""}
            /\ \A k \in 1..Len(trace) :
                  LET name == QualifiedNameOf(funcs[trace[k].function])
                      result == trace[k].result
                      entry == DictGet(stdout.value, name, ScenarioEntry("", "", None, "", ""))
                  IN  /\ name \in DictKeys(stdout.value)
                      /\ IF ~result.raised
                         THEN /\ entry.positive = DictGet(result.value, "positive", "")
                              /\ entry.negative = DictGet(result.value, "negative", "")
                              /\ entry.error = None
                         ELSE /\ entry.positive = ""
                              /\ entry.negative = ""
                              /\ entry.error # None
            /\ stderr = [k \in 1..Len(Succeeded(trace)) |->
                            Progress(QualifiedNameOf(funcs[Succeeded(trace)[k].function]))]


\* C28: chaining the two scripts, every function of the scenario script's
\* output has exactly one entry in the test script's output: an entry with
\* an error when scenario generation or test generation failed for it, an
\* entry without one otherwise.
C28_OneTestEntryPerFunction ==
    pc = "tests_printed" =>
        \A i \in 1..Len(stdin.scenarios) :
            LET name == stdin.scenarios[i].key
                entries == SelectSeq(stdout.value, LAMBDA t : t.functionName = name)
                called == SelectSeq(trace, LAMBDA c : c.function = i)
                failed == \/ stdin.scenarios[i].value.error # None
                          \/ \E k \in 1..Len(called) : called[k].result.raised
            IN  /\ Len(entries) = 1
                /\ (entries[1].error # None) <=> failed

----------------------------------------------------------------------------
(* coverage_analyzer.py.
   What the analyzer reads of a func_source is its `walk`: for Python the
   If, For/While, Raise, Try and Return nodes in ast.walk order (a Raise with
   the name of its exception, None for a bare raise or another expression; a
   Return with the type of the literal it returns, None otherwise); for
   another language the matches of the four regular expressions.
   Percentages are kept in hundredths: 66.67 is 6667.                        *)

WalkNode(type, detail) == [type |-> type, detail |-> detail]

\* the names in the walk that _check_exceptions collects
RECURSIVE RaisedNames(_)
RaisedNames(walk) ==
    IF walk = <<>> THEN <<>>
    ELSE (IF Head(walk).type = "Raise" /\ Head(walk).detail # None
          THEN <<Head(walk).detail>> ELSE <<>>) \o RaisedNames(Tail(walk))

\* the type of the first literal returned in the walk, as _infer_return_type
\* finds it
RECURSIVE FirstReturnLiteral(_)
FirstReturnLiteral(walk) ==
    IF walk = <<>> THEN None
    ELSE IF Head(walk).type = "Return" /\ Head(walk).detail # None THEN Head(walk).detail
         ELSE FirstReturnLiteral(Tail(walk))

\* the source of a Python function whose ast holds the nodes of `walk`
WalkSource(params, returns, walk) ==
    [walk |-> walk]
    @@ Source("def", params, returns, FirstReturnLiteral(walk),
              \E i \in 1..Len(walk) : walk[i].type = "If",
              \E i \in 1..Len(walk) : walk[i].type = "Loop",
              RaisedNames(walk))

\* the source of a function of another language, with the matches of the
\* regular expressions in it
TextSource(walk) == [walk |-> walk] @@ NoSource("text")

\* the `elements` dict _extract_testable_elements starts from
NoElements ==
    [all |-> {}, branches |-> 0, loops |-> 0, exceptions |-> 0, returns |-> 0,
     assertions |-> 0]

RECURSIVE WalkElements(_, _)
\* the loop `for node in ast.walk(tree)` of _extract_testable_elements
WalkElements(walk, elements) ==
    IF walk = <<>> THEN elements
    ELSE LET node == Head(walk)
             next ==
                CASE node.type = "If" ->
                        [elements EXCEPT
                           !.branches = @ + 1,
                           !.all = @ \cup {"if_statement_" \o ToString(elements.branches + 1)}]
                  [] node.type = "Loop" ->
                        [elements EXCEPT
                           !.loops = @ + 1,
                           !.all = @ \cup {"loop_" \o ToString(elements.loops + 1)}]
                  [] node.type = "Raise" ->
                        [elements EXCEPT
                           !.exceptions = @ + 1,
                           !.all = @ \cup {"exception_" \o ToString(elements.exceptions + 1)}]
                  [] node.type = "Try" ->
                        [elements EXCEPT
                           !.all = @ \cup {"try_block_" \o ToString(Cardinality(elements.all))}]
                  [] node.type = "Return" ->
                        [elements EXCEPT
                           !.returns = @ + 1,
                           !.all = @ \cup {"return_" \o ToString(elements.returns + 1)}]
         IN  WalkElements(Tail(walk), next)

\* the number of matches of one regular expression
CountOf(walk, type) == Cardinality({i \in 1..Len(walk) : walk[i].type = type})

\* the regex branch of _extract_testable_elements
RegexElements(walk) ==
    LET if_count == CountOf(walk, "If")
        for_count == CountOf(walk, "Loop")
        throw_count == CountOf(walk, "Raise")
        return_count == CountOf(walk, "Return")
    IN  [all |-> {"if_statement_" \o ToString(i) : i \in 1..if_count}
                 \cup {"loop_" \o ToString(i) : i \in 1..for_count}
                 \cup {"exception_" \o ToString(i) : i \in 1..throw_count}
                 \cup {"return_" \o ToString(i) : i \in 1..return_count},
         branches |-> if_count, loops |-> for_count, exceptions |-> throw_count,
         returns |-> return_count, assertions |-> 0]

\* a variant in which the except branch counts with the regular expressions
\* (the "fallback to basic counting" its comment names)
_extract_testable_elements_regex_fallback(lang, src) ==
    IF src.kind \in {"none", "empty"} THEN NoElements
    ELSE IF lang = "python" /\ Parses(src) THEN WalkElements(src.walk, NoElements)
    ELSE RegexElements(src.walk)

\* CoverageAnalyzer._extract_testable_elements
_extract_testable_elements(lang, src) ==
    IF src.kind \in {"none", "empty"} THEN NoElements
    ELSE IF lang = "python"
         THEN (IF Parses(src) THEN WalkElements(src.walk, NoElements) ELSE NoElements)
         ELSE RegexElements(src.walk)

\* what one scenario adds to `covered` in _map_scenarios_to_coverage
CoveredBy(scenario, elements) ==
    LET category == scenario.category
        test_type == scenario.test_type
        scenario_name == scenario.scenario_name
    IN  (IF category = "exception" \/ Contains(test_type, "exception")
         THEN {elem \in elements.all : Contains(elem, "exception")} ELSE {})
        \cup (IF Contains(test_type, "branch") \/ Contains(test_type, "conditional")
              THEN {elem \in elements.all : Contains(elem, "if_statement")} ELSE {})
        \cup (IF Contains(test_type, "loop") \/ Contains(test_type, "iteration")
              THEN {elem \in elements.all : Contains(elem, "loop")} ELSE {})
        \cup (IF category \in {"happy_path", "edge_case", "validation"}
              THEN {elem \in elements.all : Contains(elem, "return")} ELSE {})
        \cup (IF Contains(scenario_name, "normal") \/ Contains(category, "happy")
              THEN {"basic_execution"} ELSE {})

\* CoverageAnalyzer._map_scenarios_to_coverage
_map_scenarios_to_coverage(scens, elements) ==
    UNION {CoveredBy(scens[i], elements) : i \in 1..Len(scens)}

\* min(a, b)
Min(a, b) == IF a <= b THEN a ELSE b

\* a variant that returns the number of branch and exception scenarios as it
\* is, without the min(...) with the number of branches
_count_covered_branches_uncapped(scens, elements) ==
    Cardinality({i \in 1..Len(scens) :
                    \/ Contains(scens[i].test_type, "branch")
                    \/ Contains(Lower(scens[i].description), "conditional")
                    \/ scens[i].category = "logic"})
    + Cardinality({i \in 1..Len(scens) : scens[i].category = "exception"})

\* CoverageAnalyzer._count_covered_branches
_count_covered_branches(scens, elements) ==
    LET branch_scenarios ==
            {i \in 1..Len(scens) :
                \/ Contains(scens[i].test_type, "branch")
                \/ Contains(Lower(scens[i].description), "conditional")
                \/ scens[i].category = "logic"}
        exception_scenarios == {i \in 1..Len(scens) : scens[i].category = "exception"}
    IN  Min(Cardinality(branch_scenarios) + Cardinality(exception_scenarios),
            elements.branches)

\* CoverageAnalyzer._estimate_path_coverage
_estimate_path_coverage(scens, elements) ==
    Cardinality({scens[i].category : i \in 1..Len(scens)})

\* round(num / den * 100, 2) in hundredths, for den > 0 (no quotient of the
\* counts met here lies halfway between two hundredths)
Percent(num, den) == (2 * num * 10000 + den) \div (2 * den)

\* CoverageAnalyzer.analyze_function_coverage
analyze_function_coverage(lang, function_info, scens) ==
    LET elements == _extract_testable_elements(lang, function_info.func_source)
        covered_elements == _map_scenarios_to_coverage(scens, elements)
        total_elements == Cardinality(elements.all)
        covered_count == Cardinality(covered_elements)
    IN  [function |-> function_info.func_name,
         total_testable_elements |-> total_elements,
         covered_elements |-> covered_count,
         coverage_percentage |-> IF total_elements > 0
                                 THEN Percent(covered_count, total_elements) ELSE 0,
         uncovered_elements |-> elements.all \ covered_elements,
         covered_branches |-> _count_covered_branches(scens, elements),
         total_branches |-> elements.branches,
         covered_paths |-> _estimate_path_coverage(scens, elements),
         details |->
            [has_error_handling |-> elements.exceptions > 0,
             error_handling_tested |->
                \E i \in 1..Len(scens) : scens[i].category = "exception",
             has_loops |-> elements.loops > 0,
             loops_tested |-> \E i \in 1..Len(scens) : Contains(scens[i].test_type, "loop"),
             has_conditionals |-> elements.branches > 0,
             conditionals_tested |->
                \E i \in 1..Len(scens) : Contains(scens[i].test_type, "branch")]]

\* the recommendations _generate_recommendations makes for one function, in
\* order; the low-coverage one names up to three of the uncovered elements
FunctionRecommendations(func) ==
    (IF func.coverage_percentage < 7000
     THEN <<[function |-> func.function, about |-> "Low coverage",
             coverage_percentage |-> func.coverage_percentage,
             add_tests_for |-> Min(3, Cardinality(func.uncovered_elements)),
             out_of |-> func.uncovered_elements]>>
     ELSE <<>>)
    \o (IF ~func.details.error_handling_tested /\ func.details.has_error_handling
        THEN <<[function |-> func.function, about |-> "Error handling not tested"]>>
        ELSE <<>>)
    \o (IF ~func.details.loops_tested /\ func.details.has_loops
        THEN <<[function |-> func.function, about |-> "Loop behavior not tested"]>>
        ELSE <<>>)
    \o (IF func.total_branches > func.covered_branches
        THEN <<[function |-> func.function, about |-> "branch(es) not covered",
                uncovered |-> func.total_branches - func.covered_branches]>>
        ELSE <<>>)

RECURSIVE RecommendationsLoop(_)
\* the loop of _generate_recommendations over function_coverage
RecommendationsLoop(function_coverage) ==
    IF function_coverage = <<>> THEN <<>>
    ELSE FunctionRecommendations(Head(function_coverage))
         \o RecommendationsLoop(Tail(function_coverage))

\* CoverageAnalyzer._generate_recommendations
_generate_recommendations(function_coverage) ==
    LET recommendations == RecommendationsLoop(function_coverage)
    IN  IF recommendations = <<>>
        THEN <<[function |-> None, about |-> "All major code paths are tested."]>>
        ELSE recommendations

RECURSIVE Sum(_, _)
\* sum(f[field] for f in function_coverage)
Sum(function_coverage, field) ==
    IF function_coverage = <<>> THEN 0
    ELSE Head(function_coverage)[field] + Sum(Tail(function_coverage), field)

\* round(total / n, 2) of a total kept in hundredths, for n > 0: the nearest
\* hundredth; when total / n lies halfway between two hundredths the binary
\* floating-point quotient is just below or just above the half, so either
\* neighbour can result
Average(total, n) ==
    LET floor == total \div n
        rem == total % n
    IN  IF 2 * rem < n THEN {floor}
        ELSE IF 2 * rem > n THEN {floor + 1}
        ELSE {floor, floor + 1}

\* the list function_coverage that generate_coverage_report builds
FunctionCoverage(lang, funcs, all_scenarios) ==
    [i \in 1..Len(funcs) |->
        analyze_function_coverage(
            lang, funcs[i], DictGet(all_scenarios, funcs[i].qualified_name, <<>>))]

\* the values round(avg_coverage, 2) can have in generate_coverage_report
AverageCoverage(lang, funcs, all_scenarios) ==
    IF funcs # <<>>
    THEN Average(Sum(FunctionCoverage(lang, funcs, all_scenarios), "coverage_percentage"),
                 Len(funcs))
    ELSE {0}

\* CoverageAnalyzer.generate_coverage_report, with the rounded average
\* average_coverage, one of AverageCoverage(lang, funcs, all_scenarios)
generate_coverage_report(lang, funcs, all_scenarios, average_coverage) ==
    LET function_coverage == FunctionCoverage(lang, funcs, all_scenarios)
        total_branches == Sum(function_coverage, "total_branches")
        covered_branches == Sum(function_coverage, "covered_branches")
    IN  [summary |->
            [average_coverage |-> average_coverage,
             total_functions |-> Len(funcs),
             total_testable_elements |-> Sum(function_coverage, "total_testable_elements"),
             covered_elements |-> Sum(function_coverage, "covered_elements"),
             total_branches |-> total_branches,
             covered_branches |-> covered_branches,
             branch_coverage |-> IF total_branches > 0
                                 THEN Percent(covered_branches, total_branches) ELSE 0],
         functions |-> function_coverage,
         recommendations |-> _generate_recommendations(function_coverage)]

\* coverage_analyzer.analyze_coverage: it reads the source file first
analyze_coverage(exists, funcs, all_scenarios, lang, average_coverage) ==
    IF ~exists THEN Raise("FileNotFoundError")
    ELSE Ok(generate_coverage_report(lang, funcs, all_scenarios, average_coverage))

----------------------------------------------------------------------------
(* SpecCoverage: the coverage analyzer on the functions of a file and their
   scenarios *)

MaxWalk == 3        \* nodes of a function's ast that the analyzer counts

WalkNodes ==
    {WalkNode("If", None), WalkNode("Loop", None), WalkNode("Try", None),
     WalkNode("Return", None), WalkNode("Return", "int"),
     WalkNode("Raise", "ValueError"), WalkNode("Raise", None)}

\* the matches the regular expressions can have in a text
TextNodes ==
    {WalkNode("If", None), WalkNode("Loop", None), WalkNode("Return", None),
     WalkNode("Raise", None)}

\* the Python functions the analyzer is given
CoveragePythonFunctions ==
    {FunctionInfo("calc_sum", None, FALSE, WalkSource(<<>>, None, w)) :
        w \in SeqsUpTo(WalkNodes, MaxWalk)}
    \cup {FunctionInfo("calc_sum", None, FALSE, WalkSource(<<Param("a", "int")>>, "int", w)) :
             w \in SeqsUpTo(WalkNodes, MaxWalk)}
    \cup {FunctionInfo("calc_sum", None, FALSE, [walk |-> <<>>] @@ NoSource(k)) :
             k \in {"none", "empty", "text"}}
    \cup {FunctionInfo("calc_sum", None, FALSE, TextSource(w)) :
             w \in {<<WalkNode("Return", None)>>,
                    <<WalkNode("If", None), WalkNode("Raise", None)>>}}

\* the functions of a file of another language
CoverageTextFunctions ==
    {FunctionInfo("calcSum", None, FALSE, TextSource(w)) : w \in SeqsUpTo(TextNodes, MaxWalk)}

\* a second function of the file
OtherFunction(lang) ==
    IF lang = "python"
    THEN FunctionInfo("other", "C", FALSE,
                      WalkSource(<<Param("self", None)>>, None,
                                 <<WalkNode("If", None), WalkNode("Return", None)>>))
    ELSE FunctionInfo("other", None, FALSE, TextSource(<<WalkNode("If", None)>>))

RECURSIVE ScenarioDictsFor(_)
\* the scenario dicts for the functions funcs: each function with the list
\* the ScenarioGenerator makes of it, with the sample list, or with none
ScenarioDictsFor(funcs) ==
    IF funcs = <<>> THEN {<<>>}
    ELSE LET rest == ScenarioDictsFor(Tail(funcs))
         IN  rest \cup {<<[key |-> Head(funcs).qualified_name, value |-> l]>> \o d :
                           l \in ScenarioListsOf(Head(funcs)), d \in rest}

InitCoverage ==
    /\ language \in {"python", "javascript"}
    /\ \E f \in (IF language = "python" THEN CoveragePythonFunctions
                 ELSE CoverageTextFunctions) :
          functions \in {<<>>, <<f>>}
                        \cup (IF Len(f.func_source.walk) <= 1
                              THEN {<<f, OtherFunction(language)>>} ELSE {})
    /\ scenarios \in ScenarioDictsFor(functions)
    /\ source_file = SourceFileOf(language)
    /\ file_exists \in BOOLEAN
    /\ content = Ok(functions)
    /\ generate_coverage \in IF file_exists THEN BOOLEAN ELSE {TRUE}
    /\ custom_values = <<>>
    /\ test_files = <<>>
    /\ coverage_report = None
    /\ disk = NoDisk
    /\ env = NoEnv
    /\ pc = "idle"
    /\ trace = <<>>
    /\ ret = NoCall
    /\ IdleScripts

\* a call of CoverageAnalyzer(source, language).analyze_function_coverage on
\* one function and its scenarios
CallAnalyzeFunctionCoverage ==
    /\ pc = "idle"
    /\ \E i \in 1..Len(functions) :
          LET scens == DictGet(scenarios, functions[i].qualified_name, <<>>)
          IN  ret' = [call |-> "analyze_function_coverage", function |-> i,
                      scenarios |-> scens,
                      value |-> analyze_function_coverage(language, functions[i], scens)]
    /\ pc' = "returned"
    /\ UNCHANGED <<source_file, file_exists, content, script_vars, pipeline_vars, env, trace>>

\* a call of pipeline.analyze_coverage()
AnalyzeCoverage ==
    /\ pc = "idle"
    /\ IF ~generate_coverage THEN UNCHANGED coverage_report
       ELSE \E average_coverage \in AverageCoverage(language, functions, scenarios) :
              LET r == analyze_coverage(file_exists, functions, scenarios, language,
                                        average_coverage)
              IN  IF r.raised THEN UNCHANGED coverage_report
                  ELSE coverage_report' = r.value
    /\ ret' = [call |-> "analyze_coverage", value |-> TRUE]
    /\ pc' = "returned"
    /\ UNCHANGED <<source_file, file_exists, content, script_vars, generate_coverage, custom_values,
                   language, functions, scenarios, test_files, disk, env, trace>>

NextCoverage ==
    \/ CallAnalyzeFunctionCoverage
    \/ AnalyzeCoverage

SpecCoverage == InitCoverage /\ [][NextCoverage]_vars

\* C12: the coverage figures of analyze_function_coverage are bounded for
\* every function and every scenario list: covered_elements is at most
\* total_testable_elements, covered_elements plus the number of uncovered
\* elements is total_testable_elements, and the percentage is within 0..100.
C12_CoverageBounded ==
    ret.call = "analyze_function_coverage" =>
        /\ ret.value.covered_elements <= ret.value.total_testable_elements
        /\ ret.value.covered_elements + Cardinality(ret.value.uncovered_elements)
              = ret.value.total_testable_elements
        /\ ret.value.coverage_percentage >= 0
        /\ ret.value.coverage_percentage <= 10000

\* C13: for a function that contains a loop and has the scenario list the
\* ScenarioGenerator made (with test_loop_behavior), the loop elements count
\* as covered, details.loops_tested is True and no 'Loop behavior not tested'
\* recommendation is made for it.
C13_LoopTreatedConsistently ==
    (/\ ret.call = "analyze_function_coverage"
     /\ language = "python"
     /\ _has_loops(functions[ret.function].func_source)
     /\ generate(ScenarioGenerator(functions[ret.function])) = Ok(ret.scenarios)) =>
        /\ \A elem \in ret.value.uncovered_elements : ~Contains(elem, "loop")
        /\ ret.value.details.loops_tested
        /\ \A n \in 1..Len(FunctionRecommendations(ret.value)) :
              FunctionRecommendations(ret.value)[n].about # "Loop behavior not tested"

\* whether the analyzer cannot read the source of a Python function: it is
\* missing, empty or does not parse
BadPythonSource(src) == src.kind \in {"none", "empty"} \/ ~Parses(src)

C23_WitnessNoFunctions ==
    /\ ret.call = "analyze_coverage"
    /\ generate_coverage
    /\ file_exists
    /\ functions = <<>>
    /\ coverage_report.summary.average_coverage = 0
    /\ coverage_report.summary.total_functions = 0

\* C24: in every coverage report covered_branches <= total_branches holds for
\* each function and for the summary totals, which are the sums of the
\* per-function figures, so branch_coverage is between 0 and 100.
C24_BranchesBounded ==
    /\ ret.call = "analyze_function_coverage" =>
           /\ ret.value.covered_branches >= 0
           /\ ret.value.covered_branches <= ret.value.total_branches
    /\ (ret.call = "analyze_coverage" /\ generate_coverage /\ file_exists) =>
           LET summary == coverage_report.summary
               funcs == coverage_report.functions
           IN  /\ \A i \in 1..Len(funcs) :
                     funcs[i].covered_branches <= funcs[i].total_branches
               /\ summary.total_branches = Sum(funcs, "total_branches")
               /\ summary.covered_branches = Sum(funcs, "covered_branches")
               /\ summary.covered_branches <= summary.total_branches
               /\ summary.branch_coverage >= 0
               /\ summary.branch_coverage <= 10000

\* the report of two functions, the first with one if and more branch and
\* exception scenarios than that, the second with an if and no scenarios:
\* one branch of two is covered, branch_coverage is 50.00
C24_Witness ==
    /\ ret.call = "analyze_coverage"
    /\ generate_coverage
    /\ file_exists
    /\ Len(functions) = 2
    /\ coverage_report.functions[1].total_branches = 1
    /\ _count_covered_branches_uncapped(
           DictGet(scenarios, functions[1].qualified_name, <<>>),
           _extract_testable_elements(language, functions[1].func_source)) > 1
    /\ coverage_report.functions[1].covered_branches = 1
    /\ coverage_report.functions[2].total_branches = 1
    /\ coverage_report.functions[2].covered_branches = 0
    /\ coverage_report.summary.branch_coverage = 5000

====
